---- MODULE Spec2Model ----
(***************************************************************************)
(* turnip (fork of feed-master): the Telegram bot that ingests YouTube     *)
(* videos, articles and voice-overs into one size-bounded feed.            *)
(*                                                                         *)
(* The model follows app/proc/telegram_bot.go in its latest revision (the  *)
(* TelegramBot of src/app/proc/subtitle.go, lines 212-1139): one task per  *)
(* accepted submission (processVideo, processArticle, processVoiceover),   *)
(* stepping from one external call to the next, the /del handler, the      *)
(* BoltDB store and the directory of audio files.  The store package       *)
(* (app/youtube/store) is not among the sources: its operations are        *)
(* modelled from the store contract of the specification (section 4.1).    *)
(***************************************************************************)
EXTENDS Integers, Sequences, FiniteSets, TLC

VARIABLES
    entries,    \* the store's Entry rows of feed t.FeedName (a set of records)
    processed,  \* the store's processed markers of that feed (a set of VideoIDs)
    files,      \* the audio files on disk (a set of paths)
    clock,      \* wall clock, read by time.Now()
    pc,         \* pc[p]: the position of pipeline task p
    kind,       \* kind[p]: "video", "article" or "vo"
    res,        \* res[p]: the submitted resource (video id or article URL)
    info,       \* info[p]: metadata fetched for p
    file,       \* file[p]: path of the audio file p acquired
    pending,    \* pending[p]: file paths RemoveOld returned to p, not yet deleted
    outcome,    \* outcome[p]: the terminal status p reported
    trace,      \* trace[p]: history of the calls of p's run in flight, in order
    del,        \* the /del handler: its position, the entry it picked
    everSaved,  \* history: every Entry a Save ever inserted
    removed,    \* history: every Entry removed by Store.Remove (manual delete)
    faults,     \* history: the store and file-system calls that failed so far
    call,       \* one call of a yt-dlp adapter: its configuration and attempts
    chunk,      \* one call of translateChunk: the instances it contacted
    config,     \* the deployment: TTS enabled, vot-cli installed
    handled,    \* the message a handler of the bot handled last, and its reply
    shutdown,   \* whether the context of Run is cancelled, and the tasks that were
                \* in flight then without having saved
    chat,       \* chat[p]: the message that submitted task p, and its status message
    calc        \* one application of a function of the bot: its arguments, its result

vars == <<entries, processed, files, clock, pc, kind, res, info, file, pending,
          outcome, trace, del, everSaved, removed, faults, call, chunk, config,
          handled, shutdown, chat, calc>>

\* the state of the bot, its store and its files
botVars == <<entries, processed, files, clock, pc, kind, res, info, file, pending,
             outcome, trace, del, everSaved, removed, faults, chat>>

\* the state the pipelines and the /del handler leave alone
aux == <<call, chunk, config, handled, shutdown, calc>>

-----------------------------------------------------------------------------
(* Bounds of the model *)

NumProcs == 2       \* pipeline tasks (accepted submissions)
MaxItems == 2       \* t.MaxItems, the retention bound of the feed
MaxDeletes == 1     \* /del commands
MaxFaults == 1      \* failing store and file-system calls

Procs == 1..NumProcs
Videos == {"v1"}                \* YouTube videos sent as plain links
Urls == {"u1"}                  \* article URLs
VoVideos == {"v1"}              \* YouTube videos sent with /vo
Kinds == {"video", "article", "vo"}

NoDate == -1                    \* info.UploadDate == "" (or unparsable)
PastDate == 0                   \* an upload date in the past
FirstNow == MaxItems + 1        \* the clock at start-up

None == "none"
NoFile == <<>>                  \* the empty path ""
\* processVoiceover: maxDuration, 4 hours in seconds
maxDuration == 4 * 60 * 60

\* info.Duration of the videos sent with /vo: 4 hours, and a second more
Durations == {maxDuration, maxDuration + 1}

\* the metadata of a run: the upload date, the duration, whether the track
\* list holds a dubbed track of the target language, and the method that
\* produced the audio (voice-over only)
NoInfo == [UploadDate |-> NoDate, Duration |-> 0, Dubbed |-> FALSE, Method |-> None]

Min(a, b) == IF a < b THEN a ELSE b
Max(a, b) == IF a > b THEN a ELSE b
Range(s) == {s[i] : i \in 1..Len(s)}

-----------------------------------------------------------------------------
(* Resource IDs and file names.  A string is a tuple of its parts, so that *)
(* "vo_" + id and "art_" + hash are concatenations; sha1 is a tagged       *)
(* injection of its input (no two inputs of the model share a digest).     *)

Sha1(x) == <<"sha1">> \o x

\* the video ID extractYouTubeVideoID found in the message, as a resource ID
videoResourceID(v) == <<v>>

voiceoverID(v) == <<"vo_", v>>

makeArticleID(url) == <<"art_">> \o Sha1(<<"article::", url>>)

FeedName == "manual"

makeFileName(id) == Sha1(<<FeedName, "::">> \o id)

\* Downloader.Get: filepath.Join(d.destination, fname+".mp3")
downloadPath(fname) == <<"yt/">> \o fname \o <<".mp3">>

\* processArticle: t.FilesLocation + "/" + fname + ".mp3"
articlePath(fname) == <<"yt/">> \o fname \o <<".mp3">>

\* vo_<videoID>_<unix time>.mp3 in the same directory
voPath(v, t) == <<"yt/", "vo_", v, t, ".mp3">>

ResourceID(k, r) ==
    CASE k = "video" -> videoResourceID(r)
      [] k = "article" -> makeArticleID(r)
      [] k = "vo" -> voiceoverID(r)

KeyOf(p) == ResourceID(kind[p], res[p])

-----------------------------------------------------------------------------
(* The store (app/youtube/store, BoltDB), from its contract.               *)

StoreHas(E, id) == \E e \in E : e.VideoID = id

\* a faulty Save: an upsert, which overwrites the entry of the key
StoreSaveUpsert(E, e) ==
    [created |-> ~StoreHas(E, e.VideoID),
     entries |-> {x \in E : x.VideoID # e.VideoID} \cup {e}]

\* Save: atomic check-and-insert keyed by (feed, VideoID)
StoreSave(E, e) ==
    IF StoreHas(E, e.VideoID)
    THEN [created |-> FALSE, entries |-> E]
    ELSE [created |-> TRUE, entries |-> E \cup {e}]

\* Remove: deletes the Entry row of the key
StoreRemove(E, e) == {x \in E : x.VideoID # e.VideoID}

\* a faulty RemoveOld: it deletes the newest excess entries
StoreRemoveNewest(E, maxItems) ==
    {R \in SUBSET E :
        /\ Cardinality(R) = Max(0, Cardinality(E) - maxItems)
        /\ \A r \in R, k \in E \ R : r.Published >= k.Published}

\* RemoveOld: the sets of entries it may delete, the oldest excess by Published
\* (entries published at the same instant are taken in any order)
StoreRemoveOld(E, maxItems) ==
    {R \in SUBSET E :
        /\ Cardinality(R) = Max(0, Cardinality(E) - maxItems)
        /\ \A r \in R, k \in E \ R : r.Published <= k.Published}

\* Load: the sequences it may return, newest first, at most limit items
StoreLoad(E, limit) ==
    LET n == Min(Cardinality(E), Max(limit, 0))
    IN {s \in [1..n -> E] :
          /\ \A i, j \in 1..n : i < j =>
                /\ s[i] # s[j]
                /\ s[i].Published >= s[j].Published
          /\ \A x \in E \ Range(s), i \in 1..n : x.Published <= s[i].Published}

StoreCheckProcessed(M, id) == id \in M
StoreSetProcessed(M, id) == M \cup {id}
\* a faulty ResetProcessed: it leaves the marker
StoreResetNothing(M, id) == M
StoreResetProcessed(M, id) == M \ {id}

-----------------------------------------------------------------------------
(* Entries *)

Entry(id, published, path, by, method) ==
    [VideoID |-> id, Published |-> published, File |-> path, by |-> by,
     Method |-> method]

NoEntry == Entry(<<>>, NoDate, NoFile, 0, None)

\* a faulty createEntry: the entry is keyed by the video and the time of its
\* creation, not by the video alone
createEntryTimeKey(p, now) ==
    Entry(<<"v_", res[p], now>>,
          IF info[p].UploadDate # NoDate THEN info[p].UploadDate ELSE now,
          file[p], p, None)

\* createEntry: Published is the parsed upload date, else time.Now()
createEntry(p, now) ==
    Entry(videoResourceID(res[p]),
          IF info[p].UploadDate # NoDate THEN info[p].UploadDate ELSE now,
          file[p], p, None)

createArticleEntry(p, now) == Entry(makeArticleID(res[p]), now, file[p], p, None)

\* the method is written into the entry's title (emoji) and description
createVoiceoverEntry(p, now) ==
    Entry(voiceoverID(res[p]), now, file[p], p, info[p].Method)

EntryOf(p, now) ==
    CASE kind[p] = "video" -> createEntry(p, now)
      [] kind[p] = "article" -> createArticleEntry(p, now)
      [] kind[p] = "vo" -> createVoiceoverEntry(p, now)

\* The clock counts the instants at which an Entry was built: time.Now() in
\* createEntry returns a new instant each time, while the file names stamped
\* with time.Now().Unix() (whole seconds) carry the current instant, so that
\* two downloads with no Entry built between them share their name.
Now == clock

-----------------------------------------------------------------------------
(* Start-up.  The store is a file that outlives the process: the bot starts *)
(* with the feed an earlier run left: none, or a full feed of MaxItems       *)
(* entries, each saved, marked processed and with its file on disk.         *)

OldVideos == <<"o1", "o2", "o3", "o4">>

OldEntry(i) == Entry(videoResourceID(OldVideos[i]), i,
                     downloadPath(makeFileName(videoResourceID(OldVideos[i]))), 0,
                     None)

\* the transcript of a task: the message with the link, and the status
\* message the bot sent for it
NoChat == [original |-> None, status |-> None]

BotInit ==
    /\ \E n \in {0, MaxItems} :
          /\ entries = {OldEntry(i) : i \in 1..n}
          /\ processed = {OldEntry(i).VideoID : i \in 1..n}
          /\ files = {OldEntry(i).File : i \in 1..n}
          /\ everSaved = {OldEntry(i) : i \in 1..n}
    /\ clock = FirstNow
    /\ pc = [p \in Procs |-> "idle"]
    /\ kind = [p \in Procs |-> None]
    /\ res = [p \in Procs |-> None]
    /\ info = [p \in Procs |-> NoInfo]
    /\ file = [p \in Procs |-> NoFile]
    /\ pending = [p \in Procs |-> {}]
    /\ outcome = [p \in Procs |-> None]
    /\ trace = [p \in Procs |-> <<>>]
    /\ del = [pc |-> "idle", entry |-> NoEntry, n |-> 0]
    /\ removed = {}
    /\ faults = 0
    /\ chat = [p \in Procs |-> NoChat]

\* no adapter call under observation
NoCall == [tool |-> None, cookiesFile |-> FALSE, pc |-> "none",
           attempts |-> <<>>, ret |-> None, file |-> NoFile]

\* no chunk under translation
NoChunk == [pc |-> "none", i |-> 1, contacted |-> <<>>, answers |-> <<>>,
            lastErr |-> <<>>, text |-> <<>>, err |-> <<>>]

\* no message handled yet
NoMsg == [cmd |-> None, sender |-> None, text |-> <<>>, reply |-> <<>>]

\* a deployment with TTS enabled and vot-cli installed
FullConfig == [TTSEnabled |-> TRUE, VotCli |-> TRUE]

\* Run has not been cancelled
Running == [stopped |-> FALSE, early |-> {}]

\* no function under observation
NoCalc == [pc |-> "none"]

Quiet ==
    /\ call = NoCall /\ chunk = NoChunk /\ handled = NoMsg /\ shutdown = Running
    /\ calc = NoCalc

Init == BotInit /\ Quiet /\ config = FullConfig

-----------------------------------------------------------------------------
(* Steps common to the pipelines *)

\* the task goes on to its next call, having made the calls evs
Step(p, next, evs) ==
    /\ pc' = [pc EXCEPT ![p] = next]
    /\ trace' = [trace EXCEPT ![p] = @ \o evs]
    /\ UNCHANGED <<outcome, chat>>

\* the task ends with a terminal status: "failure" (the error handleText's
\* goroutine edits into the status message), "already_in_feed" (found by
\* CheckProcessed), "already_exists" (Save created nothing) or "success".
\* The history of the run ends with it.
\* a faulty end: the message is removed after an addition only
OriginalAfterSuccessOnly(status) == IF status = "success" THEN "scheduled" ELSE "present"

\* deleteMessageAfterDelay(originalMsg, 5*time.Second) is called where the
\* pipeline returns nil, and not where it returns an error
OriginalAfter(status) == IF status = "failure" THEN "present" ELSE "scheduled"

End(p, status) ==
    /\ chat' = [chat EXCEPT ![p].original = OriginalAfter(status)]
    /\ pc' = [pc EXCEPT ![p] = "done"]
    /\ outcome' = [outcome EXCEPT ![p] = status]
    /\ trace' = [trace EXCEPT ![p] = <<>>]
    /\ info' = [info EXCEPT ![p] = NoInfo]
    /\ file' = [file EXCEPT ![p] = NoFile]

StoreUnchanged == UNCHANGED <<entries, processed, everSaved, removed>>

\* a store or file-system call fails (an I/O error) / none does
Fault == faults < MaxFaults /\ faults' = faults + 1
NoFault == UNCHANGED faults
OthersUnchanged == UNCHANGED <<kind, res, del>> /\ UNCHANGED aux

-----------------------------------------------------------------------------
(* Inbound messages.  A text is a sequence of pieces, so that the regular   *)
(* expressions and strings.Contains of the handlers see the pieces they     *)
(* look for.                                                                *)

\* strings.Contains
Contains(s, m) ==
    \E i \in 0..(Len(s) - Len(m)) : SubSeq(s, i + 1, i + Len(m)) = m

\* strings.ToLower, on the pieces written with capitals
ToLower(s) ==
    [i \in 1..Len(s) |->
        CASE s[i] = ".MP3" -> ".mp3"
          [] s[i] = "YouTube.com/shorts/" -> "youtube.com/shorts/"
          [] OTHER -> s[i]]

\* t.AllowedUserID, and another user
Allowed == "owner"
Senders == {"owner", "stranger"}

isAuthorized(user) == user = Allowed

\* extractYouTubeVideoID: patterns, each followed by an ID of 11 characters
VideoPatterns ==
    { <<"youtube.com/watch", "?v=">>, <<"youtu.be/">>,
      <<"youtube.com/embed/">>, <<"youtube.com/v/">> }

\* the pieces that are IDs of 11 characters
VideoIDs == Videos \cup VoVideos

extractYouTubeVideoID(text) ==
    LET ids == {text[i + Len(pat)] : <<i, pat>> \in
                  {x \in (1..Len(text)) \X VideoPatterns :
                      /\ x[1] + Len(x[2]) <= Len(text)
                      /\ SubSeq(text, x[1], x[1] + Len(x[2]) - 1) = x[2]
                      /\ text[x[1] + Len(x[2])] \in VideoIDs}}
    IN  IF ids = {} THEN None ELSE CHOOSE id \in ids : TRUE

\* extractURL: https?:// and what follows it up to the first white space
extractURL(text) ==
    LET starts == {i \in 1..(Len(text) - 1) :
                      text[i] \in {"http://", "https://"} /\ text[i + 1] # " "}
    IN  IF starts = {} THEN <<>>
        ELSE LET s == CHOOSE i \in starts : \A j \in starts : i <= j
                 stops == {j \in (s + 1)..Len(text) : text[j] = " "}
                 e == IF stops = {} THEN Len(text)
                      ELSE (CHOOSE j \in stops : \A k \in stops : j <= k) - 1
             IN  SubSeq(text, s, e)

\* isYouTubeURL
isYouTubeURL(rawURL) ==
    \E pattern \in {"youtube.com/watch", "youtu.be/", "youtube.com/embed/",
                    "youtube.com/v/", "youtube.com/shorts/"} :
       Contains(ToLower(rawURL), <<pattern>>)

mediaExtensions ==
    {".jpg", ".jpeg", ".png", ".gif", ".webp", ".mp3", ".mp4", ".pdf", ".zip", ".rar"}

\* a faulty IsArticleURL that does not look for YouTube
IsArticleURLAnyHost(rawURL) ==
    /\ rawURL[1] \in {"http://", "https://"}
    /\ ToLower(rawURL)[Len(rawURL)] \notin mediaExtensions

\* IsArticleURL: not YouTube, http or https, no media file extension
IsArticleURL(rawURL) ==
    /\ ~isYouTubeURL(rawURL)
    /\ rawURL[1] \in {"http://", "https://"}
    /\ ToLower(rawURL)[Len(rawURL)] \notin mediaExtensions

\* the article a URL names
UrlKey(rawURL) == rawURL[Len(rawURL)]

\* the texts sent to the bot without a command
PlainTexts ==
    {<<"hello">>, <<"look: ", "ftp://", "example.com/", "u1">>}
LinkTexts ==
    {<<"https://", "youtube.com/watch", "?v=", v>> : v \in Videos}
       \cup {<<"read ", "https://", "example.com/", u>> : u \in Urls}
OtherLinkTexts ==
    { <<"https://", "youtube.com/shorts/", "v1">>,
      <<"https://", "YouTube.com/shorts/", "v1">>,
      <<"https://", "youtube.com/watch", "?v=", "short">>,
      <<"https://", "example.com/", "song", ".mp3">>,
      <<"https://", "example.com/", "song", ".MP3">> }
Texts == PlainTexts \cup LinkTexts \cup OtherLinkTexts

\* the texts sent with /vo: the command, white space, the argument
VoTexts ==
    { <<"/vo">>, <<"/vo", " ">>, <<"/vo", " ", "hello">>,
      <<"/vo", " ", "https://", "youtube.com/shorts/", "v1">> }
       \cup {<<"/vo", " ", "https://", "youtube.com/watch", "?v=", v>> : v \in VoVideos}

\* regexp \s+, Split(m.Text, 2): the command and the rest
VoArgs(text) ==
    IF Len(text) < 2 THEN <<text>> ELSE <<SubSeq(text, 1, 1), SubSeq(text, 3, Len(text))>>

\* the replies of the handlers
Silent == <<>>
Denial == <<"Unauthorized. This bot is private.">>
Processing(k) ==
    CASE k = "video" -> <<"Processing...">>
      [] k = "article" -> <<"Voicing the article...">>
      [] k = "vo" -> <<"Getting the voice-over...">>
NoValidURL(tts) ==
    <<"No valid URL found. Send a link:", "YouTube: https://youtube.com/watch?v=VIDEO_ID">>
       \o (IF tts THEN <<"Article: any web page URL">> ELSE <<>>)
VoUsage == <<"Usage: /vo <youtube_url>">>
VoInvalid == <<"Invalid YouTube URL">>
VoNotInstalled == <<"vot-cli not installed">>

\* a message and the reply the handler sent
Msg(cmd, sender, text, reply) ==
    [cmd |-> cmd, sender |-> sender, text |-> text, reply |-> reply]

-----------------------------------------------------------------------------
(* The Dispatcher: handleText and handleVoiceover acknowledge an accepted   *)
(* submission and start its pipeline as a goroutine.  Tasks are started in  *)
(* the order of their numbers.                                              *)

\* a faulty start: the handler runs the pipeline itself, so that the next
\* message is taken when the pipeline has ended
LaunchAfterOthers(p, k, r, first) ==
    /\ pc[p] = "idle" /\ ~shutdown.stopped
    /\ \A q \in Procs : pc[q] \in {"idle", "done"}
    /\ pc' = [pc EXCEPT ![p] = first]
    /\ kind' = [kind EXCEPT ![p] = k]
    /\ res' = [res EXCEPT ![p] = r]
    /\ chat' = [chat EXCEPT ![p] = [original |-> "present", status |-> "present"]]
    /\ UNCHANGED <<entries, processed, files, clock, info, file, pending,
                   outcome, trace, del, everSaved, removed, faults>>
    /\ UNCHANGED <<call, chunk, config, calc, shutdown>>

Launch(p, k, r, first) ==
    /\ pc[p] = "idle" /\ ~shutdown.stopped
    /\ \A q \in Procs : q < p => pc[q] # "idle"
    /\ pc' = [pc EXCEPT ![p] = first]
    /\ kind' = [kind EXCEPT ![p] = k]
    /\ res' = [res EXCEPT ![p] = r]
    /\ chat' = [chat EXCEPT ![p] = [original |-> "present", status |-> "present"]]
    /\ UNCHANGED <<entries, processed, files, clock, info, file, pending,
                   outcome, trace, del, everSaved, removed, faults>>
    /\ UNCHANGED <<call, chunk, config, calc, shutdown>>

\* handleText, text with a YouTube video URL
HandleTextVideo(p) ==
    /\ pc[p] = "idle"
    /\ \E sender \in Senders, text \in Texts :
       /\ isAuthorized(sender)
       /\ extractYouTubeVideoID(text) # None
       /\ handled' = Msg("text", sender, text, Processing("video"))
       /\ Launch(p, "video", extractYouTubeVideoID(text), "info")

\* handleText, text with an article URL (TTS enabled)
HandleTextArticle(p) ==
    /\ pc[p] = "idle"
    /\ \E sender \in Senders, text \in Texts :
       LET articleURL == extractURL(text) IN
       /\ isAuthorized(sender)
       /\ extractYouTubeVideoID(text) = None
       /\ articleURL # <<>> /\ config.TTSEnabled /\ IsArticleURL(articleURL)
       /\ handled' = Msg("text", sender, text, Processing("article"))
       /\ Launch(p, "article", UrlKey(articleURL), "extract")

\* handleVoiceover: /vo <url>
HandleVoiceover(p) ==
    /\ pc[p] = "idle"
    /\ \E sender \in Senders, text \in VoTexts :
       LET args == VoArgs(text) IN
       /\ isAuthorized(sender)
       /\ Len(args) >= 2 /\ args[2] # <<>>
       /\ extractYouTubeVideoID(args[2]) # None
       /\ config.VotCli
       /\ handled' = Msg("/vo", sender, text, Processing("vo"))
       /\ Launch(p, "vo", extractYouTubeVideoID(args[2]), "check")

\* a handler that starts no pipeline and touches neither store nor files
ReplyOnly(cmd, sender, text, reply) ==
    /\ handled' = Msg(cmd, sender, text, reply)
    /\ ~shutdown.stopped
    /\ UNCHANGED <<botVars, call, chunk, config, calc, shutdown>>

\* handleText, handleHelp (/help and /start): a sender who is not the allowed
\* user gets the denial
HandleTextUnauthorized ==
    \E sender \in Senders, text \in Texts :
       ~isAuthorized(sender) /\ ReplyOnly("text", sender, text, Denial)

HandleHelpUnauthorized ==
    \E sender \in Senders, cmd \in {"/help", "/start"} :
       ~isAuthorized(sender) /\ ReplyOnly(cmd, sender, <<cmd>>, Denial)

\* handleList, handleHistory, handleDelete, handleVoiceover: for a sender who
\* is not the allowed user the handler returns at once
HandleListUnauthorized ==
    \E sender \in Senders :
       ~isAuthorized(sender) /\ ReplyOnly("/list", sender, <<"/list">>, Silent)

HandleHistoryUnauthorized ==
    \E sender \in Senders :
       ~isAuthorized(sender) /\ ReplyOnly("/history", sender, <<"/history">>, Silent)

HandleDeleteUnauthorized ==
    \E sender \in Senders :
       ~isAuthorized(sender) /\ ReplyOnly("/del", sender, <<"/del">>, Silent)

HandleVoiceoverUnauthorized ==
    \E sender \in Senders, text \in VoTexts :
       ~isAuthorized(sender) /\ ReplyOnly("/vo", sender, text, Silent)

\* handleText: neither a video ID nor an article URL to voice
HandleTextNoURL ==
    \E sender \in Senders, text \in Texts :
       LET articleURL == extractURL(text) IN
       /\ isAuthorized(sender)
       /\ extractYouTubeVideoID(text) = None
       /\ ~(articleURL # <<>> /\ config.TTSEnabled /\ IsArticleURL(articleURL))
       /\ ReplyOnly("text", sender, text, NoValidURL(config.TTSEnabled))

\* handleVoiceover: no argument, no video ID in it, or no vot-cli
HandleVoiceoverRejected ==
    \E sender \in Senders, text \in VoTexts :
       LET args == VoArgs(text) IN
       /\ isAuthorized(sender)
       /\ IF Len(args) < 2 \/ args[2] = <<>>
          THEN ReplyOnly("/vo", sender, text, VoUsage)
          ELSE IF extractYouTubeVideoID(args[2]) = None
          THEN ReplyOnly("/vo", sender, text, VoInvalid)
          ELSE /\ ~config.VotCli
               /\ ReplyOnly("/vo", sender, text, VoNotInstalled)

-----------------------------------------------------------------------------
(* processVideo *)

\* 1. Downloader.GetInfo
VideoGetInfo(p) ==
    /\ pc[p] = "info" /\ kind[p] = "video"
    /\ \/ End(p, "failure")
       \/ /\ \E d \in {NoDate, PastDate} :
                info' = [info EXCEPT ![p] = [NoInfo EXCEPT !.UploadDate = d]]
          /\ Step(p, "check", <<"GetInfo">>)
          /\ UNCHANGED file
    /\ UNCHANGED <<files, clock, pending>>
    /\ StoreUnchanged /\ OthersUnchanged /\ NoFault

\* Store.CheckProcessed of the three pipelines; a store error reads as
\* "not found" (found, _, _ := ...)
CheckProcessed(p, next) ==
    /\ \/ /\ NoFault
          /\ IF StoreCheckProcessed(processed, KeyOf(p))
             THEN End(p, "already_in_feed")
             ELSE /\ Step(p, next, <<"CheckProcessed">>)
                  /\ UNCHANGED <<info, file>>
       \/ /\ Fault
          /\ Step(p, next, <<"CheckProcessed">>)
          /\ UNCHANGED <<info, file>>
    /\ UNCHANGED <<files, clock, pending>>
    /\ StoreUnchanged /\ OthersUnchanged

\* 2. Check if already processed
VideoCheckProcessed(p) ==
    /\ pc[p] = "check" /\ kind[p] = "video"
    /\ CheckProcessed(p, "get")

\* a faulty step 3: the error of Downloader.Get is not returned, the task
\* goes on with the file it has not got
VideoDownloadNoReturn(p) ==
    /\ pc[p] = "get" /\ kind[p] = "video"
    /\ LET path == downloadPath(makeFileName(videoResourceID(res[p])))
       IN \/ /\ Step(p, "save", <<"Get">>)
             /\ UNCHANGED <<files, file, info>>
          \/ /\ files' = files \cup {path}
             /\ file' = [file EXCEPT ![p] = path]
             /\ Step(p, "save", <<"Get">>)
             /\ UNCHANGED info
    /\ UNCHANGED <<clock, pending>>
    /\ StoreUnchanged /\ OthersUnchanged /\ NoFault

\* 3. Downloader.Get: the command fails, or it succeeds and leaves the file,
\* or it succeeds and leaves none (ErrSkip, an error to processVideo)
VideoDownload(p) ==
    /\ pc[p] = "get" /\ kind[p] = "video"
    /\ LET path == downloadPath(makeFileName(videoResourceID(res[p])))
       IN \/ /\ End(p, "failure")
             /\ UNCHANGED files
          \/ /\ files' = files \cup {path}
             /\ file' = [file EXCEPT ![p] = path]
             /\ Step(p, "save", <<"Get">>)
             /\ UNCHANGED info
    /\ UNCHANGED <<clock, pending>>
    /\ StoreUnchanged /\ OthersUnchanged /\ NoFault

-----------------------------------------------------------------------------
(* processArticle *)

\* 1. ArticleExtractor.Extract, then the test for empty text, then
\* translator.NeedsTranslation decides whether step 1.5 runs
ArticleExtract(p) ==
    /\ pc[p] = "extract" /\ kind[p] = "article"
    /\ \/ End(p, "failure")
       \/ /\ \E needs \in BOOLEAN :
                Step(p, IF needs THEN "translate" ELSE "check", <<"Extract">>)
          /\ UNCHANGED <<info, file>>
    /\ UNCHANGED <<files, clock, pending>>
    /\ StoreUnchanged /\ OthersUnchanged /\ NoFault

\* 1.5. translator.Translate
ArticleTranslate(p) ==
    /\ pc[p] = "translate" /\ kind[p] = "article"
    /\ \/ End(p, "failure")
       \/ /\ Step(p, "check", <<"Translate">>)
          /\ UNCHANGED <<info, file>>
    /\ UNCHANGED <<files, clock, pending>>
    /\ StoreUnchanged /\ OthersUnchanged /\ NoFault

\* 3. Check if already processed
ArticleCheckProcessed(p) ==
    /\ pc[p] = "check" /\ kind[p] = "article"
    /\ CheckProcessed(p, "tts")

\* speech synthesis followed by os.WriteFile of the audio, as processArticle
\* (4., 5.) and processVoiceoverViaSubtitles (4., 5.) do; either may fail
SynthesizeToFile(p, path, method) ==
    \/ /\ End(p, "failure")
       /\ UNCHANGED files
    \/ /\ files' = files \cup {path}
       /\ file' = [file EXCEPT ![p] = path]
       /\ info' = [info EXCEPT ![p].Method = method]
       /\ Step(p, "save", <<"Synthesize", "WriteFile">>)

\* 4./5. edgeTTS.SynthesizeLongText and os.WriteFile
ArticleSynthesize(p) ==
    /\ pc[p] = "tts" /\ kind[p] = "article"
    /\ SynthesizeToFile(p, articlePath(makeFileName(makeArticleID(res[p]))), None)
    /\ UNCHANGED <<clock, pending>>
    /\ StoreUnchanged /\ OthersUnchanged /\ NoFault

-----------------------------------------------------------------------------
(* processVoiceover *)

\* 2. Check if already processed
VoCheckProcessed(p) ==
    /\ pc[p] = "check" /\ kind[p] = "vo"
    /\ CheckProcessed(p, "info")

\* 3. Downloader.GetInfo
VoGetInfo(p) ==
    /\ pc[p] = "info" /\ kind[p] = "vo"
    /\ \/ End(p, "failure")
       \/ /\ \E d \in Durations :
                info' = [info EXCEPT ![p] = [NoInfo EXCEPT !.Duration = d]]
          /\ Step(p, "probe", <<"GetInfo">>)
          /\ UNCHANGED file
    /\ UNCHANGED <<files, clock, pending>>
    /\ StoreUnchanged /\ OthersUnchanged /\ NoFault

\* a faulty 4b.: a video of exactly 4 hours goes the way of the subtitles
FallbackFromFourHours(p) == IF info[p].Duration >= maxDuration THEN "subs" ELSE "vot"

\* 4b. without a dubbed file: subtitles for a video above 4 hours, else vot-cli
Fallback(p) == IF info[p].Duration > maxDuration THEN "subs" ELSE "vot"

\* 4a. GetDubbedAudioTracks and FindDubbedTrack: an error or no matching track
\* leads to the fallback
VoProbeDubbed(p) ==
    /\ pc[p] = "probe" /\ kind[p] = "vo"
    /\ \E found \in BOOLEAN :
          /\ info' = [info EXCEPT ![p].Dubbed = found]
          /\ Step(p, IF found THEN "dub" ELSE Fallback(p), <<"GetDubbedAudioTracks">>)
    /\ UNCHANGED <<files, clock, file, pending>>
    /\ StoreUnchanged /\ OthersUnchanged /\ NoFault

\* a faulty 4a.: a failed download of the dubbed track ends the pipeline
VoDownloadDubbedFatal(p) ==
    /\ pc[p] = "dub" /\ kind[p] = "vo"
    /\ \/ /\ End(p, "failure")
          /\ UNCHANGED files
       \/ /\ files' = files \cup {voPath(res[p], Now)}
          /\ file' = [file EXCEPT ![p] = voPath(res[p], Now)]
          /\ info' = [info EXCEPT ![p].Method = "youtube-dubbed"]
          /\ Step(p, "save", <<"DownloadDubbedTrack">>)
    /\ UNCHANGED <<clock, pending>>
    /\ StoreUnchanged /\ OthersUnchanged /\ NoFault

\* 4a. DownloadDubbedTrack: a failure is logged and leads to the fallback
VoDownloadDubbed(p) ==
    /\ pc[p] = "dub" /\ kind[p] = "vo"
    /\ \/ /\ Step(p, Fallback(p), <<"DownloadDubbedTrack">>)
          /\ UNCHANGED <<files, file, info>>
       \/ /\ files' = files \cup {voPath(res[p], Now)}
          /\ file' = [file EXCEPT ![p] = voPath(res[p], Now)]
          /\ info' = [info EXCEPT ![p].Method = "youtube-dubbed"]
          /\ Step(p, "save", <<"DownloadDubbedTrack">>)
    /\ UNCHANGED <<clock, pending>>
    /\ StoreUnchanged /\ OthersUnchanged /\ NoFault

\* a faulty 4b.: vot-cli is run again after it failed
VoTranslateVideoRetries(p) ==
    /\ pc[p] = "vot" /\ kind[p] = "vo"
    /\ \/ /\ Step(p, "vot", <<"TranslateVideo">>)
          /\ UNCHANGED <<files, file, info>>
       \/ /\ files' = files \cup {voPath(res[p], Now)}
          /\ file' = [file EXCEPT ![p] = voPath(res[p], Now)]
          /\ info' = [info EXCEPT ![p].Method = "vot-cli"]
          /\ Step(p, "save", <<"TranslateVideo">>)
    /\ UNCHANGED <<clock, pending>>
    /\ StoreUnchanged /\ OthersUnchanged /\ NoFault

\* 4b. VoiceoverSvc.TranslateVideo (vot-cli)
VoTranslateVideo(p) ==
    /\ pc[p] = "vot" /\ kind[p] = "vo"
    /\ \/ /\ End(p, "failure")
          /\ UNCHANGED files
       \/ /\ files' = files \cup {voPath(res[p], Now)}
          /\ file' = [file EXCEPT ![p] = voPath(res[p], Now)]
          /\ info' = [info EXCEPT ![p].Method = "vot-cli"]
          /\ Step(p, "save", <<"TranslateVideo">>)
    /\ UNCHANGED <<clock, pending>>
    /\ StoreUnchanged /\ OthersUnchanged /\ NoFault

\* processVoiceoverViaSubtitles 1./2.: DownloadSubtitles, ParseSubtitles, the
\* test for empty text; 3. runs when the subtitles are not Russian
VoSubtitles(p) ==
    /\ pc[p] = "subs" /\ kind[p] = "vo"
    /\ \/ End(p, "failure")
       \/ /\ \E needs \in BOOLEAN :
                Step(p, IF needs THEN "subtrans" ELSE "subtts",
                     <<"DownloadSubtitles", "ParseSubtitles">>)
          /\ UNCHANGED <<info, file>>
    /\ UNCHANGED <<files, clock, pending>>
    /\ StoreUnchanged /\ OthersUnchanged /\ NoFault

\* processVoiceoverViaSubtitles 3.: Translator.Translate
VoSubTranslate(p) ==
    /\ pc[p] = "subtrans" /\ kind[p] = "vo"
    /\ \/ End(p, "failure")
       \/ /\ Step(p, "subtts", <<"Translate">>)
          /\ UNCHANGED <<info, file>>
    /\ UNCHANGED <<files, clock, pending>>
    /\ StoreUnchanged /\ OthersUnchanged /\ NoFault

\* processVoiceoverViaSubtitles 4./5.: SynthesizeLongText and os.WriteFile
VoSubSynthesize(p) ==
    /\ pc[p] = "subtts" /\ kind[p] = "vo"
    /\ SynthesizeToFile(p, voPath(res[p], Now), "subtitles-tts")
    /\ UNCHANGED <<clock, pending>>
    /\ StoreUnchanged /\ OthersUnchanged /\ NoFault

-----------------------------------------------------------------------------
(* The tail the three pipelines share: Save, SetProcessed, removeOldEntries *)

\* a faulty step 6: created is not looked at, the task goes on to SetProcessed
SaveEntryIgnoresCreated(p) ==
    /\ pc[p] = "save"
    /\ clock' = clock + 1
    /\ LET e == EntryOf(p, Now)
           r == StoreSave(entries, e)
       IN   \/ /\ Fault
                  /\ End(p, "failure")
                  /\ UNCHANGED <<entries, everSaved>>
               \/ /\ NoFault
                  /\ entries' = r.entries
                  /\ everSaved' = IF r.created THEN everSaved \cup {e} ELSE everSaved
                  /\ Step(p, "mark", <<"Save">>)
                  /\ UNCHANGED <<info, file>>
    /\ UNCHANGED <<processed, files, pending, removed>>
    /\ OthersUnchanged

\* a faulty step 6: a Save that created nothing is followed by SetProcessed
\* before the task ends with "Already exists"
SaveEntryMarksExisting(p) ==
    /\ pc[p] = "save"
    /\ clock' = clock + 1
    /\ LET e == EntryOf(p, Now)
           r == StoreSave(entries, e)
       IN   \/ /\ Fault
                  /\ End(p, "failure")
                  /\ UNCHANGED <<entries, everSaved, processed>>
               \/ /\ ~r.created
                  /\ NoFault
                  /\ End(p, "already_exists")
                  /\ entries' = r.entries
                  /\ processed' = StoreSetProcessed(processed, KeyOf(p))
                  /\ UNCHANGED everSaved
               \/ /\ r.created
                  /\ NoFault
                  /\ entries' = r.entries
                  /\ everSaved' = everSaved \cup {e}
                  /\ Step(p, "mark", <<"Save">>)
                  /\ UNCHANGED <<info, file, processed>>
    /\ UNCHANGED <<files, pending, removed>>
    /\ OthersUnchanged

\* create the Entry and Store.Save it: a store error fails the task, an
\* existing entry ends it with "Already exists"
SaveEntry(p) ==
    /\ pc[p] = "save"
    /\ clock' = clock + 1
    /\ LET e == EntryOf(p, Now)
           r == StoreSave(entries, e)
       IN   \/ /\ Fault
                  /\ End(p, "failure")
                  /\ UNCHANGED <<entries, everSaved>>
               \/ /\ ~r.created
                  /\ NoFault
                  /\ End(p, "already_exists")
                  /\ entries' = r.entries
                  /\ UNCHANGED everSaved
               \/ /\ r.created
                  /\ NoFault
                  /\ entries' = r.entries
                  /\ everSaved' = everSaved \cup {e}
                  /\ Step(p, "mark", <<"Save">>)
                  /\ UNCHANGED <<info, file>>
    /\ UNCHANGED <<processed, files, pending, removed>>
    /\ OthersUnchanged

\* a faulty step 7: the error of SetProcessed is returned
MarkProcessedFatal(p) ==
    /\ pc[p] = "mark"
    /\ \/ /\ NoFault /\ processed' = StoreSetProcessed(processed, KeyOf(p))
          /\ Step(p, "evict", <<"SetProcessed">>)
          /\ UNCHANGED <<info, file>>
       \/ /\ Fault /\ UNCHANGED processed
          /\ End(p, "failure")
    /\ UNCHANGED <<entries, files, clock, pending, everSaved, removed>>
    /\ OthersUnchanged

\* Store.SetProcessed; a failure is logged only
MarkProcessed(p) ==
    /\ pc[p] = "mark"
    /\ \/ NoFault /\ processed' = StoreSetProcessed(processed, KeyOf(p))
       \/ Fault /\ UNCHANGED processed
    /\ Step(p, "evict", <<"SetProcessed">>)
    /\ UNCHANGED <<entries, files, clock, info, file, pending, everSaved, removed>>
    /\ OthersUnchanged

\* a faulty argument: one entry more than MaxItems is kept
RemoveOldKeepsOneMore == MaxItems + 1

\* the bound removeOldEntries hands to Store.RemoveOld: t.MaxItems
RemoveOldArg == MaxItems

\* removeOldEntries: nothing when MaxItems <= 0, else Store.RemoveOld (a store
\* error is logged and no path is returned); without paths to delete the
\* status is edited to success
RemoveOldEntries(p) ==
    /\ pc[p] = "evict"
    /\ IF MaxItems <= 0
       THEN /\ End(p, "success")
            /\ NoFault
            /\ UNCHANGED <<entries, pending>>
       ELSE \/ /\ Fault
               /\ End(p, "success")
               /\ UNCHANGED <<entries, pending>>
            \/ \E R \in StoreRemoveOld(entries, RemoveOldArg) :
                  /\ NoFault
                  /\ entries' = entries \ R
                  /\ IF R = {}
                     THEN /\ End(p, "success")
                          /\ UNCHANGED pending
                     ELSE /\ pending' = [pending EXCEPT ![p] = {e.File : e \in R}]
                          /\ Step(p, "rmfiles", <<"RemoveOld">>)
                          /\ UNCHANGED <<info, file>>
    /\ UNCHANGED <<processed, files, clock, everSaved, removed>>
    /\ OthersUnchanged

\* a faulty loop: an os.Remove that fails ends the task with the error
RemoveOldFileFatal(p) ==
    /\ pc[p] = "rmfiles"
    /\ \E f \in pending[p] :
          /\ pending' = [pending EXCEPT ![p] = @ \ {f}]
          /\ \/ /\ NoFault /\ files' = files \ {f}
                /\ IF pending[p] = {f}
                   THEN End(p, "success")
                   ELSE /\ Step(p, "rmfiles", <<"os.Remove">>)
                        /\ UNCHANGED <<info, file>>
             \/ /\ Fault /\ UNCHANGED files
                /\ End(p, "failure")
    /\ UNCHANGED clock
    /\ StoreUnchanged /\ OthersUnchanged

\* removeOldEntries, the loop over the returned paths: os.Remove of one path,
\* which may fail (logged); after the last one the status is edited to success
RemoveOldFile(p) ==
    /\ pc[p] = "rmfiles"
    /\ \E f \in pending[p] :
          /\ pending' = [pending EXCEPT ![p] = @ \ {f}]
          /\ \/ NoFault /\ files' = files \ {f}
             \/ Fault /\ UNCHANGED files
          /\ IF pending[p] = {f}
             THEN End(p, "success")
             ELSE /\ Step(p, "rmfiles", <<"os.Remove">>)
                  /\ UNCHANGED <<info, file>>
    /\ UNCHANGED clock
    /\ StoreUnchanged /\ OthersUnchanged

-----------------------------------------------------------------------------
(* handleDelete: /del [N].  (The handler runs beside the pipeline tasks.)   *)

\* Load(MaxItems) and the choice of entries[idx-1]; a store error, an empty
\* feed or an index beyond the list end the command with a reply only
DeleteLoad ==
    /\ del.pc = "idle" /\ del.n < MaxDeletes /\ ~shutdown.stopped
    /\ NoFault
    /\ \/ UNCHANGED del
       \/ \E idx \in 1..(MaxItems + 1) :
          \E s \in StoreLoad(entries, MaxItems) :
             IF idx > Len(s)
             THEN UNCHANGED del
             ELSE del' = [pc |-> "file", entry |-> s[idx], n |-> del.n + 1]
    /\ UNCHANGED <<entries, processed, files, clock, pc, kind, res, info, file,
                   pending, outcome, trace, everSaved, removed>>
    /\ UNCHANGED <<aux, chat>>

\* os.Remove(entry.File), when the entry names a file; a failure is logged
DeleteFile ==
    /\ del.pc = "file"
    /\ del' = [del EXCEPT !.pc = "remove"]
    /\ \/ /\ NoFault
          /\ files' = IF del.entry.File # NoFile THEN files \ {del.entry.File} ELSE files
       \/ /\ Fault
          /\ UNCHANGED files
    /\ UNCHANGED <<entries, processed, clock, pc, kind, res, info, file,
                   pending, outcome, trace, everSaved, removed>>
    /\ UNCHANGED <<aux, chat>>

\* Store.Remove(entry); on an error the command ends
DeleteRemove ==
    /\ del.pc = "remove"
    /\ \/ /\ Fault
          /\ del' = [del EXCEPT !.pc = "idle", !.entry = NoEntry]
          /\ UNCHANGED <<entries, removed>>
       \/ /\ NoFault
          /\ del' = [del EXCEPT !.pc = "reset"]
          /\ entries' = StoreRemove(entries, del.entry)
          /\ removed' = removed \cup (entries \ StoreRemove(entries, del.entry))
    /\ UNCHANGED <<processed, files, clock, pc, kind, res, info, file,
                   pending, outcome, trace, everSaved>>
    /\ UNCHANGED <<aux, chat>>

\* a faulty end of the command: ResetProcessed is not called
DeleteResetOmitted ==
    /\ del.pc = "reset"
    /\ del' = [del EXCEPT !.pc = "idle", !.entry = NoEntry]
    /\ UNCHANGED <<entries, processed, files, clock, pc, kind, res, info, file,
                   pending, outcome, trace, everSaved, removed, faults>>
    /\ UNCHANGED <<aux, chat>>

\* _ = Store.ResetProcessed(entry), then the reply with the remaining list
DeleteReset ==
    /\ del.pc = "reset"
    /\ del' = [del EXCEPT !.pc = "idle", !.entry = NoEntry]
    /\ \/ NoFault /\ processed' = StoreResetProcessed(processed, del.entry.VideoID)
       \/ Fault /\ UNCHANGED processed
    /\ UNCHANGED <<entries, files, clock, pc, kind, res, info, file,
                   pending, outcome, trace, everSaved, removed>>
    /\ UNCHANGED <<aux, chat>>

-----------------------------------------------------------------------------

Next ==
    \/ \E p \in Procs :
          \/ HandleTextVideo(p)
          \/ HandleTextArticle(p)
          \/ HandleVoiceover(p)
          \/ VideoGetInfo(p)
          \/ VideoCheckProcessed(p)
          \/ VideoDownload(p)
          \/ ArticleExtract(p)
          \/ ArticleTranslate(p)
          \/ ArticleCheckProcessed(p)
          \/ ArticleSynthesize(p)
          \/ VoCheckProcessed(p)
          \/ VoGetInfo(p)
          \/ VoProbeDubbed(p)
          \/ VoDownloadDubbed(p)
          \/ VoTranslateVideo(p)
          \/ VoSubtitles(p)
          \/ VoSubTranslate(p)
          \/ VoSubSynthesize(p)
          \/ SaveEntry(p)
          \/ MarkProcessed(p)
          \/ RemoveOldEntries(p)
          \/ RemoveOldFile(p)
    \/ DeleteLoad
    \/ DeleteFile
    \/ DeleteRemove
    \/ DeleteReset

Spec == Init /\ [][Next]_vars

-----------------------------------------------------------------------------
(* One agent at a time: a submission, or a /del command, begins only when  *)
(* every task before it has ended.  These are the runs in which "a later   *)
(* submission" is one accepted after the command before it has completed.  *)

Active == {p \in Procs : pc[p] \notin {"idle", "done"}}

Busy == Cardinality(Active) + (IF del.pc = "idle" THEN 0 ELSE 1)

\* the step A, taken when no other agent is at work
Alone(A) == A /\ Busy' <= 1

SeqNext ==
    \/ \E p \in Procs :
          \/ Alone(HandleTextVideo(p))
          \/ Alone(HandleTextArticle(p))
          \/ Alone(HandleVoiceover(p))
          \/ Alone(VideoGetInfo(p))
          \/ Alone(VideoCheckProcessed(p))
          \/ Alone(VideoDownload(p))
          \/ Alone(ArticleExtract(p))
          \/ Alone(ArticleTranslate(p))
          \/ Alone(ArticleCheckProcessed(p))
          \/ Alone(ArticleSynthesize(p))
          \/ Alone(VoCheckProcessed(p))
          \/ Alone(VoGetInfo(p))
          \/ Alone(VoProbeDubbed(p))
          \/ Alone(VoDownloadDubbed(p))
          \/ Alone(VoTranslateVideo(p))
          \/ Alone(VoSubtitles(p))
          \/ Alone(VoSubTranslate(p))
          \/ Alone(VoSubSynthesize(p))
          \/ Alone(SaveEntry(p))
          \/ Alone(MarkProcessed(p))
          \/ Alone(RemoveOldEntries(p))
          \/ Alone(RemoveOldFile(p))
    \/ Alone(DeleteLoad)
    \/ Alone(DeleteFile)
    \/ Alone(DeleteRemove)
    \/ Alone(DeleteReset)

SeqSpec == Init /\ [][SeqNext]_vars

-----------------------------------------------------------------------------
(* An external tool that never returns.  getInfo, getDubbedAudioTracks,     *)
(* downloadDubbedTrack, TranslateVideo, DownloadSubtitles, the translator   *)
(* and the article extractor run under a timeout of their own, so such a    *)
(* call ends as a failure of its step.  Downloader.get runs its command     *)
(* under the context of the pipeline, context.Background(), with no         *)
(* timeout: a yt-dlp that never exits keeps the task in Get.                *)

VideoDownloadHangs(p) ==
    /\ pc[p] = "get" /\ kind[p] = "video"
    /\ pc' = [pc EXCEPT ![p] = "hung"]
    /\ UNCHANGED <<entries, processed, files, clock, kind, res, info, file,
                   pending, outcome, trace, del, everSaved, removed, faults>>
    /\ UNCHANGED <<aux, chat>>

\* the steps of task p after its start
PipelineStep(p) ==
    \/ VideoGetInfo(p)
    \/ VideoCheckProcessed(p)
    \/ VideoDownload(p)
    \/ ArticleExtract(p)
    \/ ArticleTranslate(p)
    \/ ArticleCheckProcessed(p)
    \/ ArticleSynthesize(p)
    \/ VoCheckProcessed(p)
    \/ VoGetInfo(p)
    \/ VoProbeDubbed(p)
    \/ VoDownloadDubbed(p)
    \/ VoTranslateVideo(p)
    \/ VoSubtitles(p)
    \/ VoSubTranslate(p)
    \/ VoSubSynthesize(p)
    \/ SaveEntry(p)
    \/ MarkProcessed(p)
    \/ RemoveOldEntries(p)
    \/ RemoveOldFile(p)

HangNext ==
    \/ SeqNext
    \/ \E p \in Procs : Alone(VideoDownloadHangs(p))

\* the goroutine of a task is scheduled, and a call that returns is followed
\* by the next statement
PipelineFairness == \A p \in Procs : WF_vars(PipelineStep(p))

HangSpec == Init /\ [][HangNext]_vars /\ PipelineFairness

\* the same tasks when every tool returns
ReturnSpec == Init /\ [][SeqNext]_vars /\ PipelineFairness

-----------------------------------------------------------------------------
(* deleteMessageAfterDelay: a goroutine sleeps for the delay and deletes    *)
(* the message with the link.                                               *)

DeleteOriginal(p) ==
    /\ chat[p].original = "scheduled"
    /\ chat' = [chat EXCEPT ![p].original = "deleted"]
    /\ UNCHANGED <<entries, processed, files, clock, pc, kind, res, info, file,
                   pending, outcome, trace, del, everSaved, removed, faults>>
    /\ UNCHANGED aux

ChatNext ==
    \/ SeqNext
    \/ \E p \in Procs : DeleteOriginal(p)

\* time.Sleep returns
ChatFairness == \A p \in Procs : WF_vars(DeleteOriginal(p))

ChatSpec == Init /\ [][ChatNext]_vars /\ ChatFairness

-----------------------------------------------------------------------------
(* Run: the context of the bot is cancelled.  Run stops the poller, so no   *)
(* further message is handled.  The pipelines were started with             *)
(* context.Background(), and the commands their adapters run are bound to   *)
(* that context: the cancellation does not reach them.                      *)

Persisting == {"save", "mark", "evict", "rmfiles"}

\* <-ctx.Done(); t.Bot.Stop()
Shutdown ==
    /\ ~shutdown.stopped
    /\ shutdown' = [stopped |-> TRUE,
                    early |-> {p \in Procs : pc[p] \notin {"idle", "done"} \cup Persisting}]
    /\ UNCHANGED <<botVars, call, chunk, config, calc, handled>>

\* the bot, one agent at a time, and its shutdown
StopNext == SeqNext \/ Shutdown

StopSpec == Init /\ [][StopNext]_vars

-----------------------------------------------------------------------------
(* The handlers that only read: /list, /history, /help and /start from the  *)
(* allowed user.                                                            *)

\* handleList: Load(10) and a reply
HandleList ==
    \E sender \in Senders :
       /\ isAuthorized(sender)
       /\ \E s \in StoreLoad(entries, 10) :
             ReplyOnly("/list", sender, <<"/list">>,
                       IF Len(s) = 0 THEN <<"No videos in feed yet.">>
                                     ELSE <<"Recent videos">>)

\* handleHistory: Load(MaxItems) and a reply
HandleHistory ==
    \E sender \in Senders :
       /\ isAuthorized(sender)
       /\ \E s \in StoreLoad(entries, MaxItems) :
             ReplyOnly("/history", sender, <<"/history">>,
                       IF Len(s) = 0 THEN <<"No videos added yet.">>
                                     ELSE <<"History">>)

\* handleHelp, registered for /help and /start
HandleHelp ==
    \E sender \in Senders, cmd \in {"/help", "/start"} :
       /\ isAuthorized(sender)
       /\ ReplyOnly(cmd, sender, <<cmd>>, <<"Turnip Podcast Bot">>)

(* The Dispatcher alone, in any deployment: every handler that starts a     *)
(* pipeline or sends a reply.  The tasks it starts make their steps in Spec. *)
DispatchInit ==
    /\ BotInit /\ Quiet
    /\ config \in [TTSEnabled : BOOLEAN, VotCli : BOOLEAN]

DispatchNext ==
    \/ \E p \in Procs :
          \/ HandleTextVideo(p)
          \/ HandleTextArticle(p)
          \/ HandleVoiceover(p)
    \/ HandleTextUnauthorized
    \/ HandleHelpUnauthorized
    \/ HandleListUnauthorized
    \/ HandleHistoryUnauthorized
    \/ HandleDeleteUnauthorized
    \/ HandleVoiceoverUnauthorized
    \/ HandleTextNoURL
    \/ HandleVoiceoverRejected
    \/ HandleList
    \/ HandleHistory
    \/ HandleHelp

DispatchSpec == DispatchInit /\ [][DispatchNext]_vars

-----------------------------------------------------------------------------
(* The yt-dlp adapters that attach the cookies file: Downloader.Get and     *)
(* GetInfo, VoiceoverService.GetDubbedAudioTracks and DownloadDubbedTrack.  *)
(* Each makes one attempt and, on a cookie error with a cookies file        *)
(* configured, a second one without the cookies.                            *)

Tools == {"Get", "GetInfo", "GetDubbedAudioTracks", "DownloadDubbedTrack"}

\* the characters of a piece of text
Spell(piece) ==
    CASE piece = "failed to execute command: " ->
         <<"f", "a", "i", "l", "e", "d", " ", "t", "o", " ", "e", "x", "e",
           "c", "u", "t", "e", " ", "c", "o", "m", "m", "a", "n", "d", ":",
           " ">>
      [] piece = "exit status 1" ->
         <<"e", "x", "i", "t", " ", "s", "t", "a", "t", "u", "s", " ", "1">>
      [] piece = "\n" ->
         <<"\n">>
      [] piece = "failed to get video info: " ->
         <<"f", "a", "i", "l", "e", "d", " ", "t", "o", " ", "g", "e", "t",
           " ", "v", "i", "d", "e", "o", " ", "i", "n", "f", "o", ":", " ">>
      [] piece = "yt-dlp dump-json failed: " ->
         <<"y", "t", "-", "d", "l", "p", " ", "d", "u", "m", "p", "-", "j",
           "s", "o", "n", " ", "f", "a", "i", "l", "e", "d", ":", " ">>
      [] piece = "\nstderr: " ->
         <<"\n", "s", "t", "d", "e", "r", "r", ":", " ">>
      [] piece = "yt-dlp download failed: " ->
         <<"y", "t", "-", "d", "l", "p", " ", "d", "o", "w", "n", "l", "o",
           "a", "d", " ", "f", "a", "i", "l", "e", "d", ":", " ">>
      [] piece = "skip" ->
         <<"s", "k", "i", "p">>
      [] piece = "failed to parse video info: " ->
         <<"f", "a", "i", "l", "e", "d", " ", "t", "o", " ", "p", "a", "r",
           "s", "e", " ", "v", "i", "d", "e", "o", " ", "i", "n", "f", "o",
           ":", " ">>
      [] piece = "EOF" ->
         <<"E", "O", "F">>
      [] piece = "failed to parse yt-dlp output: " ->
         <<"f", "a", "i", "l", "e", "d", " ", "t", "o", " ", "p", "a", "r",
           "s", "e", " ", "y", "t", "-", "d", "l", "p", " ", "o", "u", "t",
           "p", "u", "t", ":", " ">>
      [] piece = "downloaded file is empty" ->
         <<"d", "o", "w", "n", "l", "o", "a", "d", "e", "d", " ", "f", "i",
           "l", "e", " ", "i", "s", " ", "e", "m", "p", "t", "y">>
      [] piece = "ERROR: " ->
         <<"E", "R", "R", "O", "R", ":", " ">>
      [] piece = "WARNING: " ->
         <<"W", "A", "R", "N", "I", "N", "G", ":", " ">>
      [] piece = "cookies are no longer valid" ->
         <<"c", "o", "o", "k", "i", "e", "s", " ", "a", "r", "e", " ", "n",
           "o", " ", "l", "o", "n", "g", "e", "r", " ", "v", "a", "l", "i",
           "d">>
      [] piece = "cookies have expired" ->
         <<"c", "o", "o", "k", "i", "e", "s", " ", "h", "a", "v", "e", " ",
           "e", "x", "p", "i", "r", "e", "d">>
      [] piece = "Please sign in" ->
         <<"P", "l", "e", "a", "s", "e", " ", "s", "i", "g", "n", " ", "i",
           "n">>
      [] piece = "Sign in to confirm you" ->
         <<"S", "i", "g", "n", " ", "i", "n", " ", "t", "o", " ", "c", "o",
           "n", "f", "i", "r", "m", " ", "y", "o", "u">>
      [] piece = "r age" ->
         <<"r", " ", "a", "g", "e">>
      [] piece = "'re not a bot" ->
         <<"'", "r", "e", " ", "n", "o", "t", " ", "a", " ", "b", "o", "t">>
      [] piece = " to view this video" ->
         <<" ", "t", "o", " ", "v", "i", "e", "w", " ", "t", "h", "i", "s",
           " ", "v", "i", "d", "e", "o">>
      [] piece = "network timeout" ->
         <<"n", "e", "t", "w", "o", "r", "k", " ", "t", "i", "m", "e", "o",
           "u", "t">>
      [] piece = "cookie" ->
         <<"c", "o", "o", "k", "i", "e">>
      [] piece = " jar is empty" ->
         <<" ", "j", "a", "r", " ", "i", "s", " ", "e", "m", "p", "t", "y">>
      [] piece = "x" ->
         <<"x">>
      [] piece = " or been revoked" ->
         <<" ", "o", "r", " ", "b", "e", "e", "n", " ", "r", "e", "v", "o",
           "k", "e", "d">>
      [] piece = " to access this video" ->
         <<" ", "t", "o", " ", "a", "c", "c", "e", "s", "s", " ", "t", "h",
           "i", "s", " ", "v", "i", "d", "e", "o">>
      [] piece = "Cookies are no longer valid" ->
         <<"C", "o", "o", "k", "i", "e", "s", " ", "a", "r", "e", " ", "n",
           "o", " ", "l", "o", "n", "g", "e", "r", " ", "v", "a", "l", "i",
           "d">>
      [] piece = "cookies have EXPIRED" ->
         <<"c", "o", "o", "k", "i", "e", "s", " ", "h", "a", "v", "e", " ",
           "E", "X", "P", "I", "R", "E", "D">>
      [] piece = "please sign in" ->
         <<"p", "l", "e", "a", "s", "e", " ", "s", "i", "g", "n", " ", "i",
           "n">>
      [] piece = "sign in to confirm you" ->
         <<"s", "i", "g", "n", " ", "i", "n", " ", "t", "o", " ", "c", "o",
           "n", "f", "i", "r", "m", " ", "y", "o", "u">>
      [] piece = "SIGN IN TO CONFIRM YOUR AGE" ->
         <<"S", "I", "G", "N", " ", "I", "N", " ", "T", "O", " ", "C", "O",
           "N", "F", "I", "R", "M", " ", "Y", "O", "U", "R", " ", "A", "G",
           "E">>
      [] piece = "cookies are no longer vali" ->
         <<"c", "o", "o", "k", "i", "e", "s", " ", "a", "r", "e", " ", "n",
           "o", " ", "l", "o", "n", "g", "e", "r", " ", "v", "a", "l", "i">>
      [] piece = "cookies  have expired" ->
         <<"c", "o", "o", "k", "i", "e", "s", " ", " ", "h", "a", "v", "e",
           " ", "e", "x", "p", "i", "r", "e", "d">>
      [] piece = "Please sign-in" ->
         <<"P", "l", "e", "a", "s", "e", " ", "s", "i", "g", "n", "-", "i",
           "n">>
      [] piece = "Sign in to confirm" ->
         <<"S", "i", "g", "n", " ", "i", "n", " ", "t", "o", " ", "c", "o",
           "n", "f", "i", "r", "m">>
      [] piece = "ookies have expired" ->
         <<"o", "o", "k", "i", "e", "s", " ", "h", "a", "v", "e", " ", "e",
           "x", "p", "i", "r", "e", "d">>
      [] piece = "d" ->
         <<"d">>
      [] piece = " you" ->
         <<" ", "y", "o", "u">>

\* the characters of a text given by its pieces
RECURSIVE Text(_)
Text(pieces) ==
    IF pieces = <<>> THEN <<>> ELSE Spell(Head(pieces)) \o Text(Tail(pieces))

\* IsCookieError: markers, by their pieces (the marker "Sign in to confirm
\* you" begins the marker "Sign in to confirm your age")
Markers ==
    { <<"cookies are no longer valid">>,
      <<"cookies have expired">>,
      <<"Please sign in">>,
      <<"Sign in to confirm you", "r age">>,
      <<"Sign in to confirm you">> }

\* the capital letters of the texts, in lower case
LowerChar(c) ==
    CASE c = "C" -> "c" [] c = "E" -> "e" [] c = "F" -> "f" [] c = "G" -> "g"
      [] c = "I" -> "i" [] c = "M" -> "m" [] c = "N" -> "n" [] c = "O" -> "o"
      [] c = "P" -> "p" [] c = "R" -> "r" [] c = "S" -> "s" [] c = "T" -> "t"
      [] c = "U" -> "u" [] c = "W" -> "w" [] c = "X" -> "x" [] c = "Y" -> "y"
      [] c = "A" -> "a" [] c = "D" -> "d"
      [] OTHER -> c

LowerText(s) == [i \in 1..Len(s) |-> LowerChar(s[i])]

\* a faulty IsCookieError: the case of the letters is not looked at
IsCookieErrorAnyCase(errStr) ==
    \E m \in Markers : Contains(LowerText(Text(errStr)), LowerText(Text(m)))

\* IsCookieError: strings.Contains(errStr, m) for some marker m, on the
\* characters of the two texts
IsCookieError(errStr) == \E m \in Markers : Contains(Text(errStr), Text(m))

\* what yt-dlp writes to stderr when it fails
CookieStderrs ==
    { <<"ERROR: ", "cookies are no longer valid">>,
      <<"ERROR: ", "cookies have expired">>,
      <<"ERROR: ", "Please sign in", " to view this video">>,
      <<"ERROR: ", "Sign in to confirm you", "r age">>,
      <<"ERROR: ", "Sign in to confirm you", "'re not a bot">> }

OtherStderrs ==
    { <<>>,
      <<"ERROR: ", "network timeout">>,
      <<"WARNING: ", "cookie", " jar is empty">> }

Stderrs == CookieStderrs \cup OtherStderrs

OK == <<"nil">>

\* the error of a failed command, as each adapter formats it
ExecError(tool, stderr) ==
    CASE tool = "Get" ->
            <<"failed to execute command: ", "exit status 1">>
               \o (IF stderr # <<>> THEN <<"\n">> \o stderr ELSE <<>>)
      [] tool = "GetInfo" ->
            <<"failed to get video info: ", "exit status 1">>
               \o (IF stderr # <<>> THEN <<"\n">> \o stderr ELSE <<>>)
      [] tool = "GetDubbedAudioTracks" ->
            <<"yt-dlp dump-json failed: ", "exit status 1", "\nstderr: ">> \o stderr
      [] tool = "DownloadDubbedTrack" ->
            <<"yt-dlp download failed: ", "exit status 1", "\nstderr: ">> \o stderr

\* the error of an attempt whose command succeeded
LateError(tool) ==
    CASE tool = "Get" -> <<"skip">>
      [] tool = "GetInfo" -> <<"failed to parse video info: ", "EOF">>
      [] tool = "GetDubbedAudioTracks" -> <<"failed to parse yt-dlp output: ", "EOF">>
      [] tool = "DownloadDubbedTrack" -> <<"downloaded file is empty">>

\* the results one attempt can have: nil, or an error
AttemptResults(tool) ==
    {OK} \cup {ExecError(tool, e) : e \in Stderrs} \cup {LateError(tool)}

\* ytdlpArgs, get: the attempt carries --cookies
WithCookies(c, useCookies) == useCookies /\ c.cookiesFile

Attempt(c, useCookies, err) ==
    [c EXCEPT !.attempts = @ \o <<[cookies |-> WithCookies(c, useCookies),
                                   err |-> err]>>]

\* a faulty condition: every error is retried
ShouldRetryAnyError(c, err) == err # OK /\ c.cookiesFile

\* err != nil && cookiesFile != "" && IsCookieError(err.Error())
ShouldRetry(c, err) == err # OK /\ c.cookiesFile /\ IsCookieError(err)

\* a faulty retry: the cookies are attached again
RetryKeepsCookies == TRUE

\* the useCookies argument of the second attempt
RetryUseCookies == FALSE

\* the first attempt, and the return when there is no retry
CallFirst ==
    /\ call.pc = "first"
    /\ \E err \in AttemptResults(call.tool) :
          call' = IF ShouldRetry(call, err)
                  THEN [Attempt(call, TRUE, err) EXCEPT !.pc = "retry"]
                  ELSE [Attempt(call, TRUE, err) EXCEPT !.pc = "returned", !.ret = err]
    /\ UNCHANGED <<botVars, chunk, config, calc, handled, shutdown>>

\* the second attempt, whose result is returned
CallRetry ==
    /\ call.pc = "retry"
    /\ \E err \in AttemptResults(call.tool) :
          call' = [Attempt(call, RetryUseCookies, err) EXCEPT
                      !.pc = "returned", !.ret = err]
    /\ UNCHANGED <<botVars, chunk, config, calc, handled, shutdown>>

RetryInit ==
    /\ BotInit /\ chunk = NoChunk /\ handled = NoMsg /\ config = FullConfig
    /\ calc = NoCalc
    /\ shutdown = Running
    /\ \E t \in Tools, cf \in BOOLEAN :
          call = [NoCall EXCEPT !.tool = t, !.cookiesFile = cf, !.pc = "first"]

RetryNext == CallFirst \/ CallRetry

RetrySpec == RetryInit /\ [][RetryNext]_vars

-----------------------------------------------------------------------------
(* Translator.translateChunk: one chunk is sent to the Lingva instances in  *)
(* the order of the list until one of them answers with a translation.      *)

\* lingvaInstances
Instances == <<"lingva.lunar.icu", "translate.plausibility.cloud",
               "lingva.garudalinux.org", "translate.projectsegfau.lt">>

\* what one instance does with the request: no answer, a status other than
\* 200, a body that is not JSON, a JSON error, or a translation
Answers == {"unreachable", "status", "garbage", "error", "translation"}

\* result.Translation of an instance
Translation(instance) == <<"translated by ", instance>>

\* the error of one failed iteration
InstanceError(instance, answer) ==
    CASE answer = "unreachable" -> <<"request to ", instance, " failed: ", "EOF">>
      [] answer = "status" -> <<instance, " returned status ", 503>>
      [] answer = "garbage" ->
            <<"failed to decode response from ", instance, ": ", "invalid character">>
      [] answer = "error" -> <<"translation error from ", instance, ": ", "quota">>

\* a faulty lastErr: the first error is kept
KeepFirstErr(lastErr, err) == IF lastErr = <<>> THEN err ELSE lastErr

\* lastErr = fmt.Errorf(...)
SetLastErr(lastErr, err) == err

\* one iteration of the loop over t.instances
TranslateChunkTry ==
    /\ chunk.pc = "loop" /\ chunk.i <= Len(Instances)
    /\ \E a \in Answers :
          LET instance == Instances[chunk.i]
              c == [chunk EXCEPT !.contacted = @ \o <<instance>>,
                                 !.answers = @ \o <<a>>]
          IN  chunk' =
                 IF a = "translation"
                 THEN [c EXCEPT !.pc = "returned", !.text = Translation(instance),
                                !.err = OK]
                 ELSE [c EXCEPT !.i = @ + 1,
                                !.lastErr = SetLastErr(@, InstanceError(instance, a))]
    /\ UNCHANGED <<botVars, call, config, calc, handled, shutdown>>

\* the return after the loop
TranslateChunkAllFailed ==
    /\ chunk.pc = "loop" /\ chunk.i > Len(Instances)
    /\ chunk' = [chunk EXCEPT
                    !.pc = "returned",
                    !.err = <<"all translation instances failed, last error: ">>
                               \o chunk.lastErr]
    /\ UNCHANGED <<botVars, call, config, calc, handled, shutdown>>

MirrorInit ==
    /\ BotInit /\ call = NoCall /\ handled = NoMsg /\ config = FullConfig
    /\ calc = NoCalc
    /\ shutdown = Running
    /\ chunk = [NoChunk EXCEPT !.pc = "loop"]

MirrorNext == TranslateChunkTry \/ TranslateChunkAllFailed

MirrorSpec == MirrorInit /\ [][MirrorNext]_vars

-----------------------------------------------------------------------------
(* The resource IDs, character by character.  A string is the sequence of   *)
(* its characters.  The functions that make the key of a submission are     *)
(* applied to literal strings, one submission after the other, and each key *)
(* is looked up among the keys made before it, as Save and CheckProcessed   *)
(* look it up in the store.                                                 *)

MaxKeys == 2                \* submissions whose keys are made

Rep(c, n) == [i \in 1..n |-> c]

\* [a-zA-Z0-9_-]: the characters of the class that the literals are made of
IDClass == {"a", "r", "t", "v", "o", "_", "0"}

\* extractYouTubeVideoID: {11}
VideoIDLen == 11

\* makeArticleID: [:16]
ArticleIDLen == 16

\* the hex digits of a SHA-1 digest (%x of 20 bytes)
DigestLen == 40

\* the lengths of the literals
LiteralLens == {10, 11, 12, 14, 16}

Prefixes == { <<>>, <<"v", "o", "_">>, <<"a", "r", "t", "_">> }

\* the literal strings submitted: what follows "youtube.com/watch?v=" in a
\* message, or the URL of an article
Literals ==
    {pre \o Rep(c, n - Len(pre)) : pre \in Prefixes, c \in {"0", "a"}, n \in LiteralLens}

\* the digests sha1 may give ("article::" + url is hashed; which digest an
\* input gets is left open, one input always gets the same)
Digests == {Rep(c, DigestLen) : c \in {"0", "a"}}

\* the length of the longest run of class characters at the head of s
ClassRun(s) ==
    LET ends == {n \in 0..Len(s) : \A i \in 1..n : s[i] \in IDClass}
    IN  CHOOSE n \in ends : \A m \in ends : m <= n

\* a faulty pattern: ([a-zA-Z0-9_-]+), every character of the class is taken
ExtractIDGreedy(tail) == SubSeq(tail, 1, ClassRun(tail))

\* extractYouTubeVideoID, on what follows the URL form: the first 11
\* characters, when there are 11 of the class; else ""
ExtractID(tail) ==
    IF ClassRun(tail) >= VideoIDLen THEN SubSeq(tail, 1, VideoIDLen) ELSE <<>>

\* fmt.Sprintf("vo_%s", videoID)
VoiceoverIDOf(videoID) == <<"v", "o", "_">> \o videoID

\* fmt.Sprintf("art_%x", h.Sum(nil))[:16]
ArticleIDOf(digest) == SubSeq(<<"a", "r", "t", "_">> \o digest, 1, ArticleIDLen)

\* the key made for a submission, and whether the store held it already
Key(k, literal, id) ==
    [kind |-> k, literal |-> literal, id |-> id,
     found |-> \E i \in 1..Len(calc.made) : calc.made[i].id = id]

MakeKey(k, literal, id) ==
    /\ calc.pc = "keys" /\ Len(calc.made) < MaxKeys
    /\ calc' = [calc EXCEPT !.made = Append(@, Key(k, literal, id))]
    /\ UNCHANGED <<botVars, call, chunk, config, handled, shutdown>>

\* handleText: the ID found in the message is the key (processVideo)
MakeVideoKey ==
    \E l \in Literals :
       /\ ExtractID(l) # <<>>
       /\ MakeKey("video", l, ExtractID(l))

\* handleVoiceover, processVoiceover 1.
MakeVoiceoverKey ==
    \E l \in Literals :
       /\ ExtractID(l) # <<>>
       /\ MakeKey("vo", l, VoiceoverIDOf(ExtractID(l)))

\* processArticle 2.; an article submitted before has the digest it had
MakeArticleKey ==
    \E l \in Literals, d \in Digests :
       /\ \A i \in 1..Len(calc.made) :
             (calc.made[i].kind = "article" /\ calc.made[i].literal = l) =>
                calc.made[i].id = ArticleIDOf(d)
       /\ MakeKey("article", l, ArticleIDOf(d))

KeyInit ==
    /\ BotInit /\ call = NoCall /\ chunk = NoChunk /\ handled = NoMsg
    /\ shutdown = Running /\ config = FullConfig
    /\ calc = [pc |-> "keys", made |-> <<>>]

KeyNext == MakeVideoKey \/ MakeVoiceoverKey \/ MakeArticleKey

KeySpec == KeyInit /\ [][KeyNext]_vars

-----------------------------------------------------------------------------
(* processVideo step 3 with Downloader.Get in full: the first run of the    *)
(* command, the retry without cookies, os.Stat of the file, and what        *)
(* processVideo does with the result.  One task at a time.                  *)

\* the path Get returns for the video of task p
GetPath(p) == downloadPath(makeFileName(videoResourceID(res[p])))

\* a faulty get: the file is not looked for after the command
getNoStat(path) ==
    {[files |-> files, file |-> NoFile, err |-> ExecError("Get", e)] : e \in Stderrs}
       \cup {[files |-> files \cup {path}, file |-> path, err |-> OK]}
       \cup {[files |-> files, file |-> path, err |-> OK]}

\* Downloader.get: the command fails; or it exits with success having written
\* the file; or it exits with success having written nothing, and os.Stat
\* tells whether the file is there.  The results: the files afterwards, the
\* path and the error returned
get(path) ==
    {[files |-> files, file |-> NoFile, err |-> ExecError("Get", e)] : e \in Stderrs}
       \cup {[files |-> files \cup {path}, file |-> path, err |-> OK]}
       \cup {[files |-> files, file |-> path,
              err |-> IF path \in files THEN OK ELSE LateError("Get")]}

\* processVideo 583: t.Downloader.Get(ctx, videoID, fname) is called
VideoDownloadCall(p) ==
    /\ pc[p] = "get" /\ kind[p] = "video"
    /\ call.pc = "none"
    /\ call' = [call EXCEPT !.pc = "first"]
    /\ UNCHANGED <<botVars, chunk, config, calc, handled, shutdown>>

\* Downloader.Get: d.get(ctx, id, fname, true), and the return without a retry
GetFirst(p) ==
    /\ pc[p] = "get" /\ call.pc = "first"
    /\ \E r \in get(GetPath(p)) :
          /\ files' = r.files
          /\ call' = IF ShouldRetry(call, r.err)
                     THEN [Attempt(call, TRUE, r.err) EXCEPT !.pc = "retry"]
                     ELSE [Attempt(call, TRUE, r.err) EXCEPT
                              !.pc = "returned", !.ret = r.err, !.file = r.file]
    /\ UNCHANGED <<entries, processed, clock, pc, kind, res, info, file, pending,
                   outcome, trace, del, everSaved, removed, faults, chat>>
    /\ UNCHANGED <<chunk, config, calc, handled, shutdown>>

\* Downloader.Get: return d.get(ctx, id, fname, false)
GetRetry(p) ==
    /\ pc[p] = "get" /\ call.pc = "retry"
    /\ \E r \in get(GetPath(p)) :
          /\ files' = r.files
          /\ call' = [Attempt(call, RetryUseCookies, r.err) EXCEPT
                         !.pc = "returned", !.ret = r.err, !.file = r.file]
    /\ UNCHANGED <<entries, processed, clock, pc, kind, res, info, file, pending,
                   outcome, trace, del, everSaved, removed, faults, chat>>
    /\ UNCHANGED <<chunk, config, calc, handled, shutdown>>

\* the status text of a failed download: "Error: failed to download: <err>"
DownloadError(err) == <<"Error: ", "failed to download: ">> \o err

\* processVideo 584-586 and the goroutine of handleText: any error of Get is
\* returned and edited into the status message
VideoDownloadReturn(p) ==
    /\ pc[p] = "get" /\ call.pc = "returned"
    /\ call' = [call EXCEPT !.pc = "none", !.attempts = <<>>, !.ret = None,
                            !.file = NoFile]
    /\ IF call.ret # OK
       THEN /\ End(p, "failure")
            /\ handled' = [handled EXCEPT !.reply = DownloadError(call.ret)]
       ELSE /\ file' = [file EXCEPT ![p] = call.file]
            /\ Step(p, "save", <<"Get">>)
            /\ UNCHANGED <<info, handled>>
    /\ UNCHANGED <<files, clock, pending, kind, res, del>>
    /\ StoreUnchanged /\ NoFault
    /\ UNCHANGED <<chunk, config, calc, shutdown>>

DownloadInit ==
    /\ BotInit /\ chunk = NoChunk /\ handled = NoMsg /\ config = FullConfig
    /\ shutdown = Running /\ calc = NoCalc
    /\ \E cf \in BOOLEAN : call = [NoCall EXCEPT !.tool = "Get", !.cookiesFile = cf]

DownloadNext ==
    \E p \in Procs :
       \/ Alone(HandleTextVideo(p))
       \/ Alone(VideoGetInfo(p))
       \/ Alone(VideoCheckProcessed(p))
       \/ Alone(VideoDownloadCall(p))
       \/ Alone(GetFirst(p))
       \/ Alone(GetRetry(p))
       \/ Alone(VideoDownloadReturn(p))
       \/ Alone(SaveEntry(p))
       \/ Alone(MarkProcessed(p))
       \/ Alone(RemoveOldEntries(p))
       \/ Alone(RemoveOldFile(p))

DownloadSpec == DownloadInit /\ [][DownloadNext]_vars

-----------------------------------------------------------------------------
(* IsCookieError applied to texts: the strings of TestIsCookieError and     *)
(* their variations, each a text around a core.                             *)

CookiePrefixes == { <<>>, <<"ERROR: ">>, <<"x">> }

CookieSuffixes ==
    { <<>>, <<" or been revoked">>, <<"'re not a bot">>, <<" to access this video">> }

\* cores that hold a marker: the markers, and markers that lie across two
\* pieces
HoldingCores ==
    Markers \cup { <<"cookies are no longer vali", "d">>,
                   <<"Sign in to confirm", " you">> }

\* cores that hold none: the empty string, other errors, a fragment of a
\* marker, markers in another case, markers with a character missing, added
\* or replaced
OtherCores ==
    { <<>>, <<"network timeout">>, <<"cookie">>,
      <<"Cookies are no longer valid">>, <<"cookies have EXPIRED">>,
      <<"please sign in">>, <<"sign in to confirm you">>,
      <<"SIGN IN TO CONFIRM YOUR AGE">>,
      <<"cookies are no longer vali">>, <<"ookies have expired">>,
      <<"Sign in to confirm">>,
      <<"cookies  have expired">>, <<"Please sign-in">> }

Framed(cores) ==
    {pre \o core \o suf : pre \in CookiePrefixes, core \in cores, suf \in CookieSuffixes}

CookieInputs == Framed(HoldingCores) \cup Framed(OtherCores)

\* IsCookieError(errStr) returns
IsCookieErrorReturn ==
    /\ calc.pc = "apply"
    /\ calc' = [calc EXCEPT !.pc = "returned", !.out = IsCookieError(calc.in)]
    /\ UNCHANGED <<botVars, call, chunk, config, handled, shutdown>>

CookieInit ==
    /\ BotInit /\ call = NoCall /\ chunk = NoChunk /\ handled = NoMsg
    /\ shutdown = Running /\ config = FullConfig
    /\ \E s \in CookieInputs : calc = [pc |-> "apply", in |-> s, out |-> FALSE]

CookieNext == IsCookieErrorReturn

CookieSpec == CookieInit /\ [][CookieNext]_vars

(***************************************************************************)
(* VoiceoverService.FindDubbedTrack.  A language tag is the sequence of its *)
(* characters; a track list is what getDubbedAudioTracks builds: tracks of  *)
(* pairwise different, non-empty languages, in the order of the formats.    *)
(***************************************************************************)
MaxTracks == 3

Ru == <<"r", "u">>
RuRU == <<"r", "u", "-", "R", "U">>
RuUA == <<"r", "u", "-", "U", "A">>
Rum == <<"r", "u", "m">>
En == <<"e", "n">>
EnUS == <<"e", "n", "-", "U", "S">>

Languages == {Ru, RuRU, RuUA, Rum, En, EnUS}

TargetLangs == {Ru, RuRU, En}

\* AudioTrack: the format of the track and its language
AudioTrack(n, lang) == [FormatID |-> n, Language |-> lang]

\* a nil *AudioTrack
NoTrack == [FormatID |-> 0, Language |-> <<>>]

TrackLists ==
    UNION { { [i \in 1..n |-> AudioTrack(i, langs[i])] :
                langs \in {l \in [1..n -> Languages] :
                             \A i, j \in 1..n : i # j => l[i] # l[j]} } :
            n \in 0..MaxTracks }

\* strings.HasPrefix
HasPrefix(s, prefix) ==
    /\ Len(prefix) <= Len(s)
    /\ SubSeq(s, 1, Len(prefix)) = prefix

\* the condition of the loop of FindDubbedTrack without the '-' of the
\* prefixes
FindDubbedTrackNoDash(tracks, TargetLang) ==
    LET hit == {i \in 1..Len(tracks) :
                   \/ tracks[i].Language = TargetLang
                   \/ HasPrefix(tracks[i].Language, TargetLang)
                   \/ HasPrefix(TargetLang, tracks[i].Language)}
    IN  IF hit = {} THEN NoTrack
        ELSE tracks[CHOOSE i \in hit : \A j \in hit : i <= j]

\* FindDubbedTrack: the loop returns at the first track whose condition
\* holds, nil after the loop
FindDubbedTrack(tracks, TargetLang) ==
    LET hit == {i \in 1..Len(tracks) :
                   \/ tracks[i].Language = TargetLang
                   \/ HasPrefix(tracks[i].Language, TargetLang \o <<"-">>)
                   \/ HasPrefix(TargetLang, tracks[i].Language \o <<"-">>)}
    IN  IF hit = {} THEN NoTrack
        ELSE tracks[CHOOSE i \in hit : \A j \in hit : i <= j]

\* FindDubbedTrack(tracks) returns
FindDubbedTrackReturn ==
    /\ calc.pc = "find"
    /\ calc' = [calc EXCEPT !.pc = "found",
                            !.out = FindDubbedTrack(calc.tracks, calc.TargetLang)]
    /\ UNCHANGED <<botVars, call, chunk, config, handled, shutdown>>

TrackInit ==
    /\ BotInit /\ call = NoCall /\ chunk = NoChunk /\ handled = NoMsg
    /\ shutdown = Running /\ config = FullConfig
    /\ \E tracks \in TrackLists, target \in TargetLangs :
          calc = [pc |-> "find", tracks |-> tracks, TargetLang |-> target,
                  out |-> NoTrack]

TrackNext == FindDubbedTrackReturn

TrackSpec == TrackInit /\ [][TrackNext]_vars

(***************************************************************************)
(* splitTextForTranslation, as Translator.Translate calls it.  A text is    *)
(* the sequence of its characters; the cap of Translate (maxChunkSize, 500  *)
(* in the source) is scaled down, and so are the texts.                     *)
(***************************************************************************)
maxChunkSize == 4

MaxTextLen == 8

TextChars == {"a", "b", "\n"}

SplitTexts == UNION { [1..n -> TextChars] : n \in 0..MaxTextLen }

\* the separator of paragraphs, "\n\n"
ParagraphSep == <<"\n", "\n">>

\* the positions of s at which sep begins
Occurrences(s, sep) ==
    {i \in 1..(Len(s) - Len(sep) + 1) : SubSeq(s, i, i + Len(sep) - 1) = sep}

\* strings.Split(s, sep): the pieces between the occurrences of sep, taken
\* from the left, without overlap
RECURSIVE StringsSplit(_, _)
StringsSplit(s, sep) ==
    IF Occurrences(s, sep) = {} THEN <<s>>
    ELSE LET i == CHOOSE k \in Occurrences(s, sep) : \A j \in Occurrences(s, sep) : k <= j
         IN  <<SubSeq(s, 1, i - 1)>>
                \o StringsSplit(SubSeq(s, i + Len(sep), Len(s)), sep)

\* the loop of splitTextForTranslation over paragraphs[i..], with the chunks
\* made and the builder current, and the append after the loop
RECURSIVE SplitLoop(_, _, _, _, _)
SplitLoop(paragraphs, i, chunks, current, maxSize) ==
    IF i > Len(paragraphs)
    THEN IF Len(current) > 0 THEN Append(chunks, current) ELSE chunks
    ELSE LET para == paragraphs[i]
             flush == Len(current) + Len(para) + 2 > maxSize /\ Len(current) > 0
             chunks1 == IF flush THEN Append(chunks, current) ELSE chunks
             current1 == IF flush THEN <<>> ELSE current
             current2 == IF Len(current1) > 0 THEN current1 \o ParagraphSep ELSE current1
         IN  SplitLoop(paragraphs, i + 1, chunks1, current2 \o para, maxSize)

\* splitTextForTranslation
splitTextForTranslation(text, maxSize) ==
    IF Len(text) <= maxSize THEN <<text>>
    ELSE SplitLoop(StringsSplit(text, ParagraphSep), 1, <<>>, <<>>, maxSize)

\* Translate has the chunks of its text
TranslateSplit ==
    /\ calc.pc = "split"
    /\ calc' = [calc EXCEPT !.pc = "chunks",
                            !.out = splitTextForTranslation(calc.text, maxChunkSize)]
    /\ UNCHANGED <<botVars, call, chunk, config, handled, shutdown>>

SplitInit ==
    /\ BotInit /\ call = NoCall /\ chunk = NoChunk /\ handled = NoMsg
    /\ shutdown = Running /\ config = FullConfig
    /\ \E text \in SplitTexts : calc = [pc |-> "split", text |-> text, out |-> <<>>]

SplitNext == TranslateSplit

SplitSpec == SplitInit /\ [][SplitNext]_vars

(***************************************************************************)
(* A feed with a past.  The store outlives the process: besides the full    *)
(* feed, the bot may find the markers of resources whose Entry an earlier   *)
(* run saved, marked and later evicted (RemoveOld deletes the Entry and its *)
(* file, and leaves the marker).                                            *)
(***************************************************************************)

\* the resources that may have been in the feed before
EvictedKeys ==
    {ResourceID("video", v) : v \in Videos}
       \cup {ResourceID("article", u) : u \in Urls}
       \cup {ResourceID("vo", v) : v \in VoVideos}

EvictedEntry(id) ==
    Entry(id, PastDate, downloadPath(makeFileName(id)), 0, None)

EvictedInit ==
    /\ \E K \in SUBSET EvictedKeys :
          /\ entries = {OldEntry(i) : i \in 1..MaxItems}
          /\ processed = {OldEntry(i).VideoID : i \in 1..MaxItems} \cup K
          /\ files = {OldEntry(i).File : i \in 1..MaxItems}
          /\ everSaved = {OldEntry(i) : i \in 1..MaxItems}
                            \cup {EvictedEntry(k) : k \in K}
    /\ clock = FirstNow
    /\ pc = [p \in Procs |-> "idle"]
    /\ kind = [p \in Procs |-> None]
    /\ res = [p \in Procs |-> None]
    /\ info = [p \in Procs |-> NoInfo]
    /\ file = [p \in Procs |-> NoFile]
    /\ pending = [p \in Procs |-> {}]
    /\ outcome = [p \in Procs |-> None]
    /\ trace = [p \in Procs |-> <<>>]
    /\ del = [pc |-> "idle", entry |-> NoEntry, n |-> 0]
    /\ removed = {}
    /\ faults = 0
    /\ chat = [p \in Procs |-> NoChat]
    /\ Quiet /\ config = FullConfig

\* one task or command at a time, on such a feed
EvictedSpec == EvictedInit /\ [][SeqNext]_vars

(***************************************************************************)
(* A feed with an Entry that has no marker: an earlier run saved the Entry  *)
(* and its SetProcessed failed (the failure is logged, and the run went on  *)
(* to its end).                                                             *)
(***************************************************************************)

UnmarkedEntry(id) ==
    Entry(id, MaxItems, downloadPath(makeFileName(id)), 0, None)

UnmarkedInit ==
    /\ \E k \in EvictedKeys :
          /\ entries = {OldEntry(i) : i \in 1..(MaxItems - 1)} \cup {UnmarkedEntry(k)}
          /\ processed = {OldEntry(i).VideoID : i \in 1..(MaxItems - 1)}
          /\ files = {e.File : e \in entries}
          /\ everSaved = entries
    /\ clock = FirstNow
    /\ pc = [p \in Procs |-> "idle"]
    /\ kind = [p \in Procs |-> None]
    /\ res = [p \in Procs |-> None]
    /\ info = [p \in Procs |-> NoInfo]
    /\ file = [p \in Procs |-> NoFile]
    /\ pending = [p \in Procs |-> {}]
    /\ outcome = [p \in Procs |-> None]
    /\ trace = [p \in Procs |-> <<>>]
    /\ del = [pc |-> "idle", entry |-> NoEntry, n |-> 0]
    /\ removed = {}
    /\ faults = 0
    /\ chat = [p \in Procs |-> NoChat]
    /\ Quiet /\ config = FullConfig

\* one task or command at a time, on such a feed
UnmarkedSpec == UnmarkedInit /\ [][SeqNext]_vars

-----------------------------------------------------------------------------
(* The cascade of processVoiceover with the probe of step 4a. in full:      *)
(* GetDubbedAudioTracks returns the tracks or an error (and then no tracks), *)
(* FindDubbedTrack looks for the track of the target language "ru", and the *)
(* download is tried when there was no error and a track was found.  calc   *)
(* keeps what the probe returned.                                           *)

\* the track lists of a probe: none, or one track of some language
ProbeLists == {tracks \in TrackLists : Len(tracks) <= 1}

\* 4a. tracks, trackErr := GetDubbedAudioTracks(...); dubbedTrack :=
\* FindDubbedTrack(tracks); if trackErr == nil && dubbedTrack != nil
VoProbeTracks(p) ==
    /\ pc[p] = "probe" /\ kind[p] = "vo"
    /\ \E trackErr \in BOOLEAN, tracks \in ProbeLists :
          LET dubbedTrack == FindDubbedTrack(tracks, Ru)
              found == ~trackErr /\ dubbedTrack # NoTrack
          IN  /\ trackErr => tracks = <<>>
              /\ calc' = [pc |-> "probed", by |-> p, trackErr |-> trackErr,
                          tracks |-> tracks, out |-> dubbedTrack]
              /\ info' = [info EXCEPT ![p].Dubbed = found]
              /\ Step(p, IF found THEN "dub" ELSE Fallback(p),
                      <<"GetDubbedAudioTracks">>)
    /\ UNCHANGED <<files, clock, file, pending>>
    /\ UNCHANGED <<kind, res, del, call, chunk, config, handled, shutdown>>
    /\ StoreUnchanged /\ NoFault

CascadeNext ==
    \E p \in Procs :
       \/ Alone(HandleVoiceover(p))
       \/ Alone(VoCheckProcessed(p))
       \/ Alone(VoGetInfo(p))
       \/ Alone(VoProbeTracks(p))
       \/ Alone(VoDownloadDubbed(p))
       \/ Alone(VoTranslateVideo(p))
       \/ Alone(VoSubtitles(p))
       \/ Alone(VoSubTranslate(p))
       \/ Alone(VoSubSynthesize(p))
       \/ Alone(SaveEntry(p))
       \/ Alone(MarkProcessed(p))
       \/ Alone(RemoveOldEntries(p))
       \/ Alone(RemoveOldFile(p))

CascadeSpec == Init /\ [][CascadeNext]_vars

-----------------------------------------------------------------------------
(* handleDelete with its argument.  The text of the command is split at the *)
(* white space; the second field, when there is one and it is not empty, is *)
(* read with fmt.Sscanf(args[1], "%d", &idx).  A field is the sequence of   *)
(* its characters.                                                          *)

MaxArgLen == 2      \* characters of the argument of /del

DelChars == {"-", "0", "1", "2", "x"}

DelFields == UNION {[1..n -> DelChars] : n \in 1..MaxArgLen}

\* "/del", "/del " and "/del <field>"
DelTexts ==
    {<<"/del">>, <<"/del", " ">>} \cup {<<"/del", " ">> \o f : f \in DelFields}

\* regexp \s+, Split(m.Text, -1); a piece " " is a run of white space
RECURSIVE SplitSpaces(_)
SplitSpaces(s) ==
    LET at == {i \in 1..Len(s) : s[i] = " "}
        i == CHOOSE k \in at : \A j \in at : k <= j
    IN  IF at = {} THEN <<s>>
        ELSE <<SubSeq(s, 1, i - 1)>> \o SplitSpaces(SubSeq(s, i + 1, Len(s)))

DecimalDigits == {"0", "1", "2"}

DigitValue(c) ==
    CASE c = "0" -> 0 [] c = "1" -> 1 [] c = "2" -> 2

\* strconv.ParseInt of a run of decimal digits
RECURSIVE ParseDigits(_)
ParseDigits(s) ==
    IF s = <<>> THEN 0
    ELSE 10 * ParseDigits(SubSeq(s, 1, Len(s) - 1)) + DigitValue(s[Len(s)])

\* the run of decimal digits s begins with
RECURSIVE DigitRun(_)
DigitRun(s) ==
    IF s # <<>> /\ s[1] \in DecimalDigits THEN <<s[1]>> \o DigitRun(Tail(s))
    ELSE <<>>

\* fmt.Sscanf(s, "%d", &idx): an optional sign is accepted, then the digits
\* that follow are the number; with no digit there the scan fails.  What
\* follows the digits is not read.
Sscanf(s) ==
    LET signed == s # <<>> /\ s[1] \in {"+", "-"}
        body == IF signed THEN Tail(s) ELSE s
        tok == DigitRun(body)
        read == Len(tok) + (IF signed THEN 1 ELSE 0)
        val == IF signed /\ s[1] = "-" THEN 0 - ParseDigits(tok) ELSE ParseDigits(tok)
    IN  [err |-> tok = <<>>, val |-> val, read |-> read]

\* the replies of handleDelete that end the command
DelUsage == <<"Usage: /del [number]", "Example: /del 1 (delete most recent)">>
DelLoadError == <<"Error: ">>
FeedEmpty == <<"Feed is empty.">>
OnlyEntries(n) == <<"Only ", n, " entries in feed.">>

\* handleDelete up to the choice of entries[idx-1]
HandleDelete ==
    /\ del.pc = "idle" /\ del.n < MaxDeletes /\ ~shutdown.stopped
    /\ NoFault
    /\ \E text \in DelTexts :
          LET args == SplitSpaces(text)
              given == Len(args) > 1 /\ args[2] # <<>>
              scan == Sscanf(args[2])
              idx == IF given THEN scan.val ELSE 1
              reply(r) == /\ handled' = Msg("/del", Allowed, text, r)
                          /\ UNCHANGED del
          IN  IF given /\ (scan.err \/ idx < 1)
              THEN reply(DelUsage)
              ELSE \/ reply(DelLoadError)
                   \/ \E s \in StoreLoad(entries, MaxItems) :
                         IF Len(s) = 0 THEN reply(FeedEmpty)
                         ELSE IF idx > Len(s) THEN reply(OnlyEntries(Len(s)))
                         ELSE /\ handled' = Msg("/del", Allowed, text, Silent)
                              /\ del' = [pc |-> "file", entry |-> s[idx],
                                         n |-> del.n + 1]
    /\ UNCHANGED <<entries, processed, files, clock, pc, kind, res, info, file,
                   pending, outcome, trace, everSaved, removed>>
    /\ UNCHANGED <<call, chunk, config, shutdown, calc, chat>>

DelNext ==
    \/ \E p \in Procs :
          \/ Alone(HandleTextVideo(p))
          \/ Alone(VideoGetInfo(p))
          \/ Alone(VideoCheckProcessed(p))
          \/ Alone(VideoDownload(p))
          \/ Alone(SaveEntry(p))
          \/ Alone(MarkProcessed(p))
          \/ Alone(RemoveOldEntries(p))
          \/ Alone(RemoveOldFile(p))
    \/ Alone(HandleDelete)
    \/ Alone(DeleteFile)
    \/ Alone(DeleteRemove)
    \/ Alone(DeleteReset)

DelSpec == Init /\ [][DelNext]_vars

-----------------------------------------------------------------------------
(* The loops over the chunks: Translator.Translate, for a text above its    *)
(* cap, over the chunks of splitTextForTranslation, and                     *)
(* EdgeTTS.SynthesizeLongText over those of splitTextIntoChunks.  Both test *)
(* ctx.Done() at the top of each iteration, hand the chunk to the worker    *)
(* (translateChunk, Synthesize), return the zero value and the error when   *)
(* it fails, and append its result to the buffer otherwise.  calc holds the *)
(* call: its chunks, the index of the iteration (from 1), the chunk in the  *)
(* worker's hands, the log of the chunks handed over and of the worker's    *)
(* answers, the buffer, and what the call returned.                         *)

MaxChunks == 3      \* chunks of one call

ChunkTexts == {<<"a">>, <<"b", "c">>}

ChunkLists == UNION {[1..n -> ChunkTexts] : n \in 1..MaxChunks}

ChunkedCalls == {"Translate", "SynthesizeLongText"}

\* the result of the worker for a chunk: its translation, its audio
WorkerResult(fn, c) ==
    IF fn = "Translate" THEN <<"ru">> \o c ELSE <<"mp3">> \o c \o <<"end">>

\* fmt.Errorf("failed to translate chunk %d: %w") and
\* fmt.Errorf("failed to synthesize chunk %d: %w"), i counted from 0
ChunkError(fn, i) ==
    IF fn = "Translate" THEN <<"failed to translate chunk ", i - 1>>
    ELSE <<"failed to synthesize chunk ", i - 1>>

\* ctx.Err()
CtxErr == <<"context canceled">>

\* a faulty return after a failed chunk: the buffer is returned with the error
ChunkFailsPartial ==
    /\ calc.pc = "loop" /\ calc.inflight
    /\ calc' = [calc EXCEPT !.pc = "returned", !.inflight = FALSE,
                            !.answers = @ \o <<"error">>,
                            !.ret = calc.result,
                            !.err = ChunkError(calc.fn, calc.i)]
    /\ UNCHANGED <<botVars, call, chunk, config, handled, shutdown>>

\* case <-ctx.Done(): return "", ctx.Err() (return nil, ctx.Err())
LoopCancelled ==
    /\ calc.pc = "loop" /\ ~calc.inflight /\ calc.i <= Len(calc.chunks)
    /\ calc.ctx = "done"
    /\ calc' = [calc EXCEPT !.pc = "returned", !.ret = <<>>, !.err = CtxErr]
    /\ UNCHANGED <<botVars, call, chunk, config, handled, shutdown>>

\* default: the chunk of the iteration is handed to the worker
SubmitChunk ==
    /\ calc.pc = "loop" /\ ~calc.inflight /\ calc.i <= Len(calc.chunks)
    /\ calc.ctx = "live"
    /\ calc' = [calc EXCEPT !.inflight = TRUE, !.submitted = @ \o <<calc.i>>]
    /\ UNCHANGED <<botVars, call, chunk, config, handled, shutdown>>

\* the worker returns its result: result.WriteString(translated)
\* (result.Write(audio)), and the loop goes on
ChunkSucceeds ==
    /\ calc.pc = "loop" /\ calc.inflight
    /\ calc' = [calc EXCEPT !.inflight = FALSE, !.i = @ + 1,
                            !.answers = @ \o <<"ok">>,
                            !.result = @ \o WorkerResult(calc.fn, calc.chunks[calc.i])]
    /\ UNCHANGED <<botVars, call, chunk, config, handled, shutdown>>

\* the worker returns an error: the call returns the zero value and the error
ChunkFails ==
    /\ calc.pc = "loop" /\ calc.inflight
    /\ calc' = [calc EXCEPT !.pc = "returned", !.inflight = FALSE,
                            !.answers = @ \o <<"error">>,
                            !.ret = <<>>,
                            !.err = ChunkError(calc.fn, calc.i)]
    /\ UNCHANGED <<botVars, call, chunk, config, handled, shutdown>>

\* after the last chunk: return result.String(), nil (result.Bytes(), nil)
LoopEnds ==
    /\ calc.pc = "loop" /\ calc.i > Len(calc.chunks)
    /\ calc' = [calc EXCEPT !.pc = "returned", !.ret = calc.result, !.err = OK]
    /\ UNCHANGED <<botVars, call, chunk, config, handled, shutdown>>

\* the caller's context is cancelled while the call runs
CtxCancel ==
    /\ calc.pc = "loop" /\ calc.ctx = "live"
    /\ calc' = [calc EXCEPT !.ctx = "done"]
    /\ UNCHANGED <<botVars, call, chunk, config, handled, shutdown>>

ChunkedInit ==
    /\ BotInit /\ call = NoCall /\ chunk = NoChunk /\ handled = NoMsg
    /\ shutdown = Running /\ config = FullConfig
    /\ \E fn \in ChunkedCalls, chunks \in ChunkLists :
          calc = [pc |-> "loop", fn |-> fn, chunks |-> chunks, i |-> 1,
                  ctx |-> "live", inflight |-> FALSE, submitted |-> <<>>,
                  answers |-> <<>>, result |-> <<>>, ret |-> <<>>, err |-> OK]

ChunkedNext ==
    \/ LoopCancelled
    \/ SubmitChunk
    \/ ChunkSucceeds
    \/ ChunkFails
    \/ LoopEnds
    \/ CtxCancel

ChunkedSpec == ChunkedInit /\ [][ChunkedNext]_vars

-----------------------------------------------------------------------------
(* Vocabulary of the properties *)

AllDone == \A p \in Procs : pc[p] = "done"

\* p and q were submitted with the same resource, to the same pipeline
SameResource(p, q) == kind[p] # None /\ kind[p] = kind[q] /\ res[p] = res[q]

\* the entries, of a set E, that a task for p's resource saved
EntriesFor(E, p) == {e \in E : e.by \in Procs /\ SameResource(e.by, p)}

\* the step of task p that ends it with the given status
Ends(p, status) == outcome[p] # status /\ outcome'[p] = status

-----------------------------------------------------------------------------
-----------------------------------------------------------------------------
\* the step of task p out of the position at
Leaves(p, at) == pc[p] = at /\ pc'[p] # at

\* no store or file-system call fails in the step
Sound == faults' = faults

(* C2: a Save of an entry whose key the store does not hold returns         *)
(* created=true and inserts that entry, with the file the task acquired; a  *)
(* Save of an entry whose key the store holds returns created=false (the    *)
(* task reports "Already exists") and leaves the store as it was, the       *)
(* stored entry being that of the first Save; the key has one entry after   *)
(* either.                                                                  *)
C2_SaveOnce ==
    [][\A p \in Procs : Leaves(p, "save") =>
          LET held == {e \in entries : e.VideoID = KeyOf(p)}
          IN /\ held = {} /\ Sound =>
                  /\ pc'[p] = "mark"
                  /\ \E e \in entries' :
                        /\ e.VideoID = KeyOf(p) /\ e.File = file[p] /\ e.by = p
                        /\ entries' = entries \cup {e}
             /\ held # {} =>
                  /\ entries' = entries /\ everSaved' = everSaved
                  /\ Sound => outcome'[p] = "already_exists"
             /\ Sound => Cardinality({e \in entries' : e.VideoID = KeyOf(p)}) = 1
      ]_vars

\* a second Save of a key returned created=false; the entry is the first one's
C2_Witness ==
    \E p \in Procs :
       /\ outcome[p] = "already_exists"
       /\ \E e \in entries : e.VideoID = KeyOf(p) /\ e.by \in Procs \ {p}

-----------------------------------------------------------------------------
\* the entries of E that are among the n most recently published of S
NewestOf(E, S, n) ==
    /\ E \subseteq S
    /\ Cardinality(E) = Min(n, Cardinality(S))
    /\ \A e \in E, x \in S \ E : x.Published <= e.Published

(* C3, as it holds: after a RemoveOld that succeeded, with maxItems = N > 0, *)
(* Load(feed, N+1) returns at most N entries, and as long as no entry was    *)
(* removed by Remove they are the N most recently published of all entries   *)
(* ever saved (all of them when fewer than N were saved).                    *)
C3_RetentionAfterRemoveOld ==
    [][\A p \in Procs : (Leaves(p, "evict") /\ Sound /\ MaxItems > 0) =>
          \A s \in StoreLoad(entries', MaxItems + 1) :
             /\ Len(s) <= MaxItems
             /\ removed = {} => NewestOf(Range(s), everSaved, MaxItems)
      ]_vars

\* a RemoveOld has just evicted: more than N entries were saved, N are left
C3_Witness ==
    \E p \in Procs :
       /\ pc[p] = "rmfiles" /\ removed = {}
       /\ Cardinality(everSaved) > MaxItems
       /\ Cardinality(entries) = MaxItems

\* C3 as stated: after any sequence of Save and RemoveOld calls (in every
\* state), Load(feed, N+1) returns at most N entries
C3_AtMostNAlways ==
    \A s \in StoreLoad(entries, MaxItems + 1) : Len(s) <= MaxItems

-----------------------------------------------------------------------------
(* C4: a RemoveOld that succeeds on a feed of k entries deletes exactly the  *)
(* max(0, k - maxItems) entries published earliest, and the paths it returns *)
(* (which removeOldEntries then deletes) are exactly the files of the        *)
(* entries it deleted; with four entries and maxItems = 2 the two newest are *)
(* left.                                                                     *)
C4_RemoveOldExact ==
    [][\A p \in Procs : (Leaves(p, "evict") /\ Sound /\ MaxItems > 0) =>
          LET R == entries \ entries'
          IN /\ entries' \subseteq entries
             /\ Cardinality(R) = Max(0, Cardinality(entries) - MaxItems)
             /\ \A r \in R, k \in entries' : r.Published <= k.Published
             /\ pending'[p] = {r.File : r \in R}
             /\ R = {} <=> pc'[p] = "done"
      ]_vars

\* the feed held A, B (from the earlier run), C and D: RemoveOld has deleted A
\* and B, returned their two paths, and left C and D
C4_Witness ==
    \E p \in Procs :
       /\ pc[p] = "rmfiles"
       /\ pending[p] = {OldEntry(1).File, OldEntry(2).File}
       /\ Cardinality(entries) = 2
       /\ \A e \in entries : e.by \in Procs
       /\ \A e \in entries : e.Published > OldEntry(2).Published

-----------------------------------------------------------------------------
(* C5: a ProcessedMarker, once set, stays set through every Save, Remove and *)
(* RemoveOld, with or without the Entry of its key: the only step that takes *)
(* it away is ResetProcessed of that key, and a ResetProcessed that succeeds *)
(* does take it away.                                                        *)
C5_MarkerOutlivesEntry ==
    [][\A k \in processed :
          /\ k \notin processed' => (del.pc = "reset" /\ del.entry.VideoID = k)
          /\ (del.pc = "reset" /\ del'.pc # "reset" /\ Sound
                /\ del.entry.VideoID = k) => k \notin processed'
      ]_vars

\* Save, SetProcessed and Remove of an entry are done, ResetProcessed is not
\* yet: the marker is found though the store holds no entry of the key
C5_Witness ==
    /\ del.pc = "reset"
    /\ del.entry.by \in Procs
    /\ StoreCheckProcessed(processed, del.entry.VideoID)
    /\ ~StoreHas(entries, del.entry.VideoID)

-----------------------------------------------------------------------------
\* the adapter calls of the Acquiring step: article extraction, translation,
\* media download, speech synthesis (Downloader.GetInfo, the metadata that
\* processVideo fetches first and whose title it shows, is not counted)
AcquiringCalls ==
    {"Extract", "Translate", "Get", "Synthesize", "WriteFile",
     "GetDubbedAudioTracks", "DownloadDubbedTrack", "TranslateVideo",
     "DownloadSubtitles", "ParseSubtitles"}

\* the calls after which the audio file of the run is on disk
ProducingCalls == {"Get", "WriteFile", "DownloadDubbedTrack", "TranslateVideo"}

StoreCalls == {"Save", "SetProcessed", "RemoveOld"}

Called(p) == Range(trace[p])

(* C6: in every pipeline, a run whose CheckProcessed finds the marker ends  *)
(* as already present having made no call of the Acquiring step (no article *)
(* extraction, translation, media download or speech synthesis), and        *)
(* changes neither the store nor the files.                                 *)
C6_FoundMeansNoAcquisition ==
    [][\A p \in Procs : (pc[p] = "check" /\ Ends(p, "already_in_feed")) =>
          /\ Called(p) \cap AcquiringCalls = {}
          /\ entries' = entries /\ processed' = processed /\ files' = files
      ]_vars

\* an article was submitted again: its run is at the check, the marker of its
\* key is set, and the article has been extracted already
C6_Witness ==
    \E p \in Procs :
       /\ kind[p] = "article" /\ pc[p] = "check"
       /\ StoreCheckProcessed(processed, KeyOf(p))
       /\ "Extract" \in Called(p)

-----------------------------------------------------------------------------
(* C7: within a run the steps come in the order Dedup-Check, Acquiring,     *)
(* Persisting, Marking-Processed, Evicting, Reporting: CheckProcessed is    *)
(* called before any call of the Acquiring step, SetProcessed only after a  *)
(* Save that returned created=true, RemoveOld only after SetProcessed        *)
(* returned, and success is reported only when the eviction has finished.   *)
C7_StepOrder ==
    [][\A p \in Procs :
          /\ Leaves(p, "check") => Called(p) \cap AcquiringCalls = {}
          /\ Leaves(p, "mark") => "Save" \in Called(p)
          /\ Leaves(p, "evict") => "SetProcessed" \in Called(p)
          /\ Ends(p, "success") =>
                /\ pc[p] \in {"evict", "rmfiles"}
                /\ "SetProcessed" \in Called(p)
                /\ pending'[p] = {}
      ]_vars

\* a run of processArticle reaches its CheckProcessed with the article
\* extracted and translated
C7_Witness ==
    \E p \in Procs :
       /\ kind[p] = "article" /\ pc[p] = "check"
       /\ {"Extract", "Translate"} \subseteq Called(p)

-----------------------------------------------------------------------------
(* C8: an Entry is saved only by a run whose acquisition has succeeded (the *)
(* acquisition ended with its audio file on disk, and that file is the      *)
(* Entry's), and a run that ends in failure has made no change to the store:*)
(* no Save that created an Entry, no SetProcessed, no RemoveOld.            *)
C8_NoPartialEntry ==
    [][\A p \in Procs :
          /\ (pc[p] # "save" /\ pc'[p] = "save") =>
                /\ file'[p] # NoFile /\ file'[p] \in files'
                /\ trace'[p][Len(trace'[p])] \in ProducingCalls
          /\ (entries' \ entries # {} /\ Leaves(p, "save")) =>
                /\ trace[p][Len(trace[p])] \in ProducingCalls
                /\ \A e \in entries' \ entries : e.File = file[p] /\ e.File # NoFile
          /\ entries' \ entries # {} => \E q \in Procs : Leaves(q, "save")
          /\ Ends(p, "failure") =>
                /\ Called(p) \cap StoreCalls = {}
                /\ entries' = entries /\ processed' = processed
      ]_vars

\* a run has failed at its Save, after an acquisition that succeeded, while
\* the run of another task has saved its Entry
C8_Witness ==
    \E p, q \in Procs :
       /\ outcome[p] = "failure" /\ faults > 0
       /\ pc[q] = "mark"
       /\ \E e \in entries : e.by = q /\ e.File = file[q]

-----------------------------------------------------------------------------
\* every Entry ever saved under the key k has been removed by /del, the last
\* of these commands has completed, and no call has failed
Deleted(k) ==
    /\ faults = 0 /\ del.pc = "idle"
    /\ \E e \in removed : e.VideoID = k
    /\ \A x \in everSaved : x.VideoID = k => x \in removed

(* C9, for submissions and commands that run one after the other and calls  *)
(* that do not fail: /del of an entry deletes its file, removes it from the *)
(* store and resets its marker, so that afterwards neither the Entry nor    *)
(* the marker of its key is there, and a later run for the same resource    *)
(* passes CheckProcessed, acquires the audio again, and its Save returns    *)
(* created=true.                                                            *)
C9_DeleteAllowsResubmission ==
    /\ [](\A e \in removed : Deleted(e.VideoID) =>
             /\ ~StoreCheckProcessed(processed, e.VideoID)
             /\ ~StoreHas(entries, e.VideoID))
    /\ [][/\ (del.pc = "file" /\ del'.pc = "remove" /\ Sound) =>
                del.entry.File \notin files'
          /\ (del.pc = "remove" /\ del'.pc = "reset") =>
                /\ ~StoreHas(entries', del.entry.VideoID)
                /\ del.entry \in removed'
          /\ (del.pc = "reset" /\ del'.pc = "idle" /\ Sound) =>
                ~StoreCheckProcessed(processed', del.entry.VideoID)
          /\ \A p \in Procs :
                /\ (Leaves(p, "check") /\ Deleted(KeyOf(p))) => pc'[p] # "done"
                /\ (Leaves(p, "save") /\ Deleted(KeyOf(p)) /\ Sound) =>
                      /\ pc'[p] = "mark"
                      /\ trace[p][Len(trace[p])] \in ProducingCalls
                      /\ \E e \in entries' \ entries :
                            e.VideoID = KeyOf(p) /\ e.by = p
      ]_vars

\* the Entry a first run saved was deleted by /del; a later run for the same
\* resource has passed the check, acquired the audio and created a new Entry
C9_Witness ==
    \E p \in Procs :
       /\ pc[p] = "mark" /\ faults = 0 /\ del.pc = "idle"
       /\ \E e \in removed : e.VideoID = KeyOf(p) /\ e.by \in Procs \ {p}
       /\ \E x \in entries : x.VideoID = KeyOf(p) /\ x.by = p
       /\ "CheckProcessed" \in Called(p)
       /\ Called(p) \cap ProducingCalls # {}

-----------------------------------------------------------------------------
(* C10: /del removes the Entry from the store before it deletes the file:   *)
(* no step of the command takes from the disk the file of an Entry that the *)
(* store holds.                                                             *)
C10_StoreFirst ==
    [][del' # del =>
          \A f \in files \ files' : \A e \in entries' : e.File # f
      ]_vars

\* the command has deleted the file and has yet to call Store.Remove: the
\* store holds the Entry, its file is gone
C10_Witness ==
    /\ del.pc = "remove"
    /\ del.entry \in entries
    /\ del.entry.File \notin files

-----------------------------------------------------------------------------
\* the run of p has downloaded the dubbed track: DownloadDubbedTrack was its
\* last call of the Acquiring step
DubbedDownloaded(p) ==
    \E i \in 1..Len(trace[p]) :
       /\ trace[p][i] = "DownloadDubbedTrack"
       /\ \A j \in (i + 1)..Len(trace[p]) : trace[p][j] \notin AcquiringCalls

Acquired(p) == pc[p] \in {"save", "mark", "evict", "rmfiles"}

ByDuration(d) == IF d > 4 * 60 * 60 THEN "subtitles-tts" ELSE "vot-cli"

(* C11, as it holds: the voice-over method is a function of the dubbed-track *)
(* availability, of the outcome of the dubbed track's download, and of the   *)
(* duration: a matching track that was downloaded gives youtube-dubbed       *)
(* whatever the duration; with no matching track, or with one whose download *)
(* failed, a duration above 4 hours gives subtitles-tts and one of at most 4 *)
(* hours gives vot-cli.  The Entry saved carries the method.                 *)
C11_MethodSelection ==
    \A p \in Procs : (kind[p] = "vo" /\ Acquired(p)) =>
       /\ info[p].Method =
             IF info[p].Dubbed /\ DubbedDownloaded(p)
             THEN "youtube-dubbed"
             ELSE ByDuration(info[p].Duration)
       /\ DubbedDownloaded(p) => info[p].Dubbed
       /\ \A e \in entries :
             (e.by = p /\ e.VideoID = KeyOf(p) /\ pc[p] = "mark") =>
                e.Method = info[p].Method

\* a video longer than 4 hours with a dubbed track: its Entry is saved as
\* youtube-dubbed
C11_Witness ==
    \E p \in Procs :
       /\ kind[p] = "vo" /\ pc[p] = "mark"
       /\ info[p].Dubbed /\ info[p].Duration > 4 * 60 * 60
       /\ \E e \in entries : e.by = p /\ e.Method = "youtube-dubbed"

\* C11 as stated: the method is a function of the dubbed-track availability
\* and the duration alone
C11_PureFunction ==
    \A p \in Procs : (kind[p] = "vo" /\ Acquired(p)) =>
       info[p].Method =
          IF info[p].Dubbed THEN "youtube-dubbed" ELSE ByDuration(info[p].Duration)

-----------------------------------------------------------------------------
Returned == call.pc = "returned"

\* every attempt of the call failed with a cookie error
AlwaysCookieError ==
    \A i \in 1..Len(call.attempts) :
       call.attempts[i].err # OK /\ IsCookieError(call.attempts[i].err)

TwiceThenSecondError ==
    /\ Len(call.attempts) = 2
    /\ call.attempts[1].cookies /\ ~call.attempts[2].cookies
    /\ call.ret = call.attempts[2].err

(* C12, as it holds: with a cookies file configured, a call of Get, GetInfo, *)
(* GetDubbedAudioTracks or DownloadDubbedTrack whose attempts always fail    *)
(* with a cookie error runs the tool exactly twice, first with the cookies   *)
(* and then without, and returns the second attempt's error; with no        *)
(* cookies file it runs the tool once, without cookies, and returns that     *)
(* error.                                                                    *)
C12_RetryOnceWithoutCookies ==
    (Returned /\ AlwaysCookieError) =>
       IF call.cookiesFile
       THEN TwiceThenSecondError
       ELSE /\ Len(call.attempts) = 1
            /\ ~call.attempts[1].cookies
            /\ call.ret = call.attempts[1].err

\* two attempts failed with different cookie errors; the second is returned
C12_Witness ==
    /\ Returned /\ AlwaysCookieError /\ call.cookiesFile
    /\ Len(call.attempts) = 2
    /\ call.attempts[1].err # call.attempts[2].err
    /\ call.ret = call.attempts[2].err

\* C12 as stated: every such call runs the tool exactly twice
C12_AlwaysTwice == (Returned /\ AlwaysCookieError) => TwiceThenSecondError

(* C13: a call whose first attempt fails with an error that holds none of    *)
(* the cookie markers runs the tool exactly once and returns that error; a   *)
(* first attempt that succeeds is not followed by a second; no call makes    *)
(* more than two attempts.                                                   *)
C13_NoOtherRetry ==
    /\ Len(call.attempts) <= 2
    /\ Returned =>
          LET first == call.attempts[1].err IN
          /\ (first # OK /\ ~IsCookieError(first)) =>
                Len(call.attempts) = 1 /\ call.ret = first
          /\ first = OK => Len(call.attempts) = 1 /\ call.ret = OK

\* with a cookies file configured, an error that names a cookie without
\* holding a marker was returned after one attempt
C13_Witness ==
    /\ Returned /\ call.cookiesFile
    /\ Len(call.attempts) = 1
    /\ call.ret # OK /\ ~IsCookieError(call.ret)
    /\ \E i \in 1..Len(call.ret) : call.ret[i] = "cookie"

-----------------------------------------------------------------------------
Translated == chunk.pc = "returned"

\* the first n instances, in the order of the list
FirstInstances(n) == SubSeq(Instances, 1, n)

(* C14: translateChunk contacts the instances in the order of the list and  *)
(* stops at the first translation: no instance after it is contacted, the   *)
(* text returned is that instance's translation, no error is returned and   *)
(* none of the earlier errors appears in the result; only when every        *)
(* instance failed an error is returned, and it carries the error of the    *)
(* last instance of the list.                                               *)
C14_MirrorsInOrder ==
    LET n == Len(chunk.contacted) IN
    /\ chunk.contacted = FirstInstances(n)
    /\ \A k \in 1..(n - 1) : chunk.answers[k] # "translation"
    /\ Translated =>
          IF chunk.err = OK
          THEN /\ n >= 1 /\ chunk.answers[n] = "translation"
               /\ chunk.text = Translation(Instances[n])
          ELSE /\ n = Len(Instances)
               /\ \A k \in 1..n : chunk.answers[k] # "translation"
               /\ chunk.text = <<>>
               /\ chunk.err =
                     <<"all translation instances failed, last error: ">>
                        \o InstanceError(Instances[n], chunk.answers[n])

\* the first two instances failed, the third translated, the fourth was not
\* contacted
C14_Witness ==
    /\ Translated /\ chunk.err = OK
    /\ chunk.answers = <<"unreachable", "status", "translation">>
    /\ chunk.text = Translation(Instances[3])

\* every instance failed, the first and the last differently
C14_WitnessAllFailed ==
    /\ Translated /\ chunk.err # OK
    /\ chunk.answers[1] # chunk.answers[Len(Instances)]

-----------------------------------------------------------------------------
\* a handler has handled a message sent by a user who is not the allowed one
Turned == handled' # handled /\ ~isAuthorized(handled'.sender)

(* C15: a message or command (text, /list, /history, /del, /vo, /help,      *)
(* /start) from a user other than the allowed one is answered with the      *)
(* fixed denial, starts no pipeline, and neither store nor files are        *)
(* touched.                                                                 *)
C15_UnauthorizedDenied ==
    [][Turned => (handled'.reply = Denial /\ UNCHANGED botVars)]_vars

\* /list from another user was handled without any reply
C15_Witness ==
    /\ handled.cmd = "/list" /\ handled.sender # Allowed /\ handled.sender # None
    /\ handled.reply = Silent

\* what holds of C15: no pipeline, no store or file access; the denial is
\* sent for a text, /help and /start only
C15_UnauthorizedNoEffect ==
    [][Turned =>
          /\ UNCHANGED botVars
          /\ handled'.reply =
                IF handled'.cmd \in {"text", "/help", "/start"} THEN Denial ELSE Silent]_vars

-----------------------------------------------------------------------------
\* the text holds a link to a YouTube video: a video ID after one of the
\* video URL forms
HasVideoLink(text) ==
    \E i \in 2..Len(text) :
       /\ text[i] \in VideoIDs
       /\ text[i - 1] \in {"?v=", "youtu.be/", "youtube.com/embed/", "youtube.com/v/"}

HasLink(text) == \E i \in 1..Len(text) : text[i] \in {"http://", "https://"}

\* links that are not articles: YouTube pages and media files
ExcludedLink(text) ==
    \/ \E i \in 1..Len(text) :
          text[i] \in {"youtube.com/shorts/", "YouTube.com/shorts/", "youtube.com/watch"}
    \/ text[Len(text)] \in {".mp3", ".MP3"}

\* the inputs C16 lists
Unrecognized(m) ==
    \/ /\ m.cmd = "text"
       /\ ~HasVideoLink(m.text)
       /\ ~HasLink(m.text) \/ ~config.TTSEnabled \/ ExcludedLink(m.text)
    \/ /\ m.cmd = "/vo"
       /\ ~HasVideoLink(m.text)

(* C16: an input of the allowed user that is not a recognized resource (a   *)
(* text with neither a YouTube video URL nor an article URL, an article URL *)
(* while TTS is disabled, a URL that IsArticleURL excludes, /vo without a    *)
(* valid YouTube URL) starts no pipeline and changes neither store nor      *)
(* files; a reply is sent and nothing else.                                 *)
C16_UnrecognizedRejected ==
    [][(handled' # handled /\ isAuthorized(handled'.sender) /\ Unrecognized(handled'))
          => /\ UNCHANGED botVars
             /\ handled'.reply \in
                   {NoValidURL(config.TTSEnabled), VoUsage, VoInvalid}]_vars

\* with TTS enabled, a link to a YouTube shorts page was answered with the
\* help text and no task was started
C16_Witness ==
    /\ handled.cmd = "text" /\ handled.sender = Allowed
    /\ config.TTSEnabled
    /\ \E i \in 1..Len(handled.text) : handled.text[i] = "YouTube.com/shorts/"
    /\ handled.reply = NoValidURL(TRUE)
    /\ \A p \in Procs : pc[p] = "idle"

-----------------------------------------------------------------------------
\* the task the next accepted submission starts
NextTask(p) == pc[p] = "idle" /\ \A q \in Procs : q < p => pc[q] # "idle"

InFlight(q) == pc[q] \notin {"idle", "done"}

(* C17: the Dispatcher does not wait for a pipeline.  In every state,        *)
(* whatever the tasks in flight are doing, /list, /history and /help can be *)
(* handled to their reply, a /del can begin and each of its steps can be     *)
(* taken, and a further submission of each kind can be accepted, also for    *)
(* the resource of a task that is still in flight.                           *)
C17_DispatcherNeverWaits ==
    /\ ENABLED HandleList /\ ENABLED HandleHistory /\ ENABLED HandleHelp
    /\ \A p \in Procs : NextTask(p) =>
          /\ ENABLED HandleTextVideo(p)
          /\ ENABLED HandleTextArticle(p)
          /\ ENABLED HandleVoiceover(p)
          /\ \A q \in Procs : InFlight(q) =>
                ENABLED (/\ \/ HandleTextVideo(p)
                            \/ HandleTextArticle(p)
                            \/ HandleVoiceover(p)
                         /\ kind'[p] = kind[q] /\ res'[p] = res[q])
    /\ (del.pc = "idle" /\ del.n < MaxDeletes) => ENABLED DeleteLoad
    /\ del.pc = "file" => ENABLED DeleteFile
    /\ del.pc = "remove" => ENABLED DeleteRemove
    /\ del.pc = "reset" => ENABLED DeleteReset

\* a download is in flight, a /del is at work, and the next submission has
\* not been sent yet
C17_Witness ==
    /\ pc[1] = "get" /\ pc[2] = "idle"
    /\ del.pc = "remove"

-----------------------------------------------------------------------------
(* C18: cancelling the context of the bot cancels every pipeline in flight: *)
(* its current adapter call is aborted, so the task ends as a failure, and  *)
(* a task that had not reached its Persisting step saves no entry and sets  *)
(* no marker.                                                               *)
C18_CancelReachesPipelines ==
    \A p \in shutdown.early :
       /\ pc[p] \notin Persisting
       /\ pc[p] = "done" => outcome[p] = "failure"
       /\ \A e \in everSaved : e.by # p

\* a task that was fetching or producing its audio when the bot was stopped
\* has saved its entry since
C18_Witness ==
    \E p \in shutdown.early :
       /\ pc[p] = "mark"
       /\ \E e \in entries : e.by = p /\ e.VideoID = KeyOf(p)

-----------------------------------------------------------------------------
(* C19: every adapter call of a pipeline is bounded by a timeout of its     *)
(* own, so that every task that was started reaches its terminal report,    *)
(* also when an external tool never returns.                                *)
C19_EveryPipelineEnds ==
    \A p \in Procs : (pc[p] # "idle") ~> (pc[p] = "done")

\* a task waits for a yt-dlp that never exits
C19_Witness == \E p \in Procs : pc[p] = "hung" /\ kind[p] = "video"

-----------------------------------------------------------------------------
Ended(p, statuses) == pc[p] = "done" /\ outcome[p] \in statuses

(* C20, as it holds: once a task ends as a success or as a duplicate        *)
(* (already in the feed, already exists), the message that submitted it is   *)
(* deleted after the delay; once it ends as a failure, that message stays.   *)
(* The status message is never deleted.                                      *)
C20_OriginalDeletedUnlessFailure ==
    /\ \A p \in Procs :
          Ended(p, {"success", "already_in_feed", "already_exists"})
             ~> (chat[p].original = "deleted")
    /\ [](\A p \in Procs :
             /\ Ended(p, {"failure"}) => chat[p].original = "present"
             /\ chat[p].original \in {"scheduled", "deleted"} => pc[p] = "done"
             /\ pc[p] # "idle" => chat[p].status = "present")

\* the message of a task that found its resource already in the feed was
\* deleted
C20_Witness ==
    \E p \in Procs :
       /\ Ended(p, {"already_in_feed"})
       /\ chat[p].original = "deleted" /\ chat[p].status = "present"

\* C20 as stated: the message is deleted after every terminal state
C20_OriginalAlwaysDeleted ==
    /\ \A p \in Procs : (pc[p] = "done") ~> (chat[p].original = "deleted")
    /\ [](\A p \in Procs : pc[p] # "idle" => chat[p].status = "present")

-----------------------------------------------------------------------------
\* the tail of a run: after its Save created the Entry
AfterSave == {"mark", "evict", "rmfiles"}

(* C21: a SetProcessed that fails after a Save that created the Entry does  *)
(* not end the task: the task goes on to removeOldEntries exactly as after   *)
(* a SetProcessed that succeeded, the step changes neither the entries nor  *)
(* the files, and the marker of the key is not set by it; no run that has    *)
(* passed its Save ends otherwise than as a success.                        *)
C21_SetProcessedNotFatal ==
    [][\A p \in Procs :
          /\ (Leaves(p, "mark") /\ ~Sound) =>
                /\ pc'[p] = "evict" /\ outcome'[p] = outcome[p]
                /\ trace'[p] = trace[p] \o <<"SetProcessed">>
                /\ entries' = entries /\ everSaved' = everSaved
                /\ files' = files
                /\ processed' = processed
          /\ (pc[p] \in AfterSave /\ pc'[p] # pc[p]) =>
                \/ pc'[p] \in {"evict", "rmfiles"}
                \/ pc'[p] = "done" /\ outcome'[p] = "success"
      ]_vars

\* a run whose SetProcessed failed has ended as a success: its Entry is in
\* the store, the marker of its key is not set
C21_Witness ==
    \E p \in Procs :
       /\ pc[p] = "done" /\ outcome[p] = "success"
       /\ faults = 1 /\ del.n = 0
       /\ \E e \in entries : e.by = p /\ e.VideoID = KeyOf(p)
       /\ ~StoreCheckProcessed(processed, KeyOf(p))

-----------------------------------------------------------------------------
(* C22: in removeOldEntries an os.Remove that fails, or that finds no file, *)
(* is not escalated: the loop takes the path off its list and goes on with  *)
(* the paths that remain, after the last one the task ends as a success,    *)
(* and the step changes nothing in the store (no entry comes back, no       *)
(* marker changes); the files are as they were when the call failed.        *)
C22_CleanupFailureNotEscalated ==
    [][\A p \in Procs : (pc[p] = "rmfiles" /\ pending'[p] # pending[p]) =>
          \E f \in pending[p] :
             /\ pending'[p] = pending[p] \ {f}
             /\ files' = IF Sound THEN files \ {f} ELSE files
             /\ entries' = entries /\ processed' = processed
             /\ everSaved' = everSaved /\ removed' = removed
             /\ IF pending'[p] = {}
                THEN pc'[p] = "done" /\ outcome'[p] = "success"
                ELSE pc'[p] = "rmfiles" /\ outcome'[p] = outcome[p]
      ]_vars

\* RemoveOld returned two paths to a task; the deletion of the first failed,
\* its file is still there, and the task is at the second path
C22_Witness ==
    \E p \in Procs :
       /\ pc[p] = "rmfiles" /\ "os.Remove" \in Called(p)
       /\ faults = 1 /\ del.n = 0
       /\ \E i, j \in 1..MaxItems :
             /\ i # j
             /\ pending[p] = {OldEntry(j).File}
             /\ OldEntry(i) \notin entries /\ OldEntry(j) \notin entries
             /\ OldEntry(i).File \in files

-----------------------------------------------------------------------------
(* C23: a Save that returns created=false ends the task as "Already        *)
(* exists": no error is reported (the message with the link is removed as   *)
(* after an addition), the task has called neither SetProcessed nor         *)
(* RemoveOld and calls nothing afterwards, entries and markers are          *)
(* unchanged, and no file is deleted: the file the task acquired stays on   *)
(* disk if it was there.                                                    *)
C23_DuplicateIsBenign ==
    [][\A p \in Procs :
          /\ (Leaves(p, "save") /\ Sound /\ StoreHas(entries, KeyOf(p))) =>
                /\ pc'[p] = "done" /\ outcome'[p] = "already_exists"
                /\ chat'[p].original = OriginalAfter("success")
                /\ Called(p) \cap StoreCalls = {}
                /\ entries' = entries /\ processed' = processed
                /\ everSaved' = everSaved /\ removed' = removed
                /\ pending' = pending
                /\ files' = files
                /\ file[p] \in files => file[p] \in files'
          /\ pc[p] = "done" => (pc'[p] = "done" /\ outcome'[p] = outcome[p])
      ]_vars

\* two voice-overs of one video raced; the second found the Entry of the
\* first at its Save, and the file it had produced is on disk, named by no
\* entry
C23_Witness ==
    \E p, q \in Procs :
       /\ p # q /\ kind[p] = "vo" /\ SameResource(p, q)
       /\ outcome[p] = "already_exists" /\ outcome[q] = "success"
       /\ faults = 0 /\ del.n = 0
       /\ \E f \in files : f[2] = "vo_" /\ \A e \in everSaved : e.File # f

-----------------------------------------------------------------------------
Made == IF calc.pc = "keys" THEN Range(calc.made) ELSE {}

(* C24: the keys of the three pipelines are pairwise distinct: a video key   *)
(* has 11 characters, a voice-over key 14 (vo_ and the video's ID), an       *)
(* article key 16 (art_ and 12 hex digits), so that no key of one kind       *)
(* equals a key of another, also when both were made from one literal        *)
(* string or for one video; a key that is found in the store was put there   *)
(* by a submission of its own kind.                                          *)
C24_KeysIsolated ==
    /\ \A a \in Made :
          Len(a.id) = CASE a.kind = "video" -> 11
                        [] a.kind = "vo" -> 14
                        [] a.kind = "article" -> 16
    /\ \A a, b \in Made : a.kind # b.kind => a.id # b.id
    /\ calc.pc = "keys" =>
          \A j \in 1..Len(calc.made) :
             calc.made[j].found =>
                \E i \in 1..(j - 1) :
                   /\ calc.made[i].kind = calc.made[j].kind
                   /\ calc.made[i].id = calc.made[j].id

\* one literal that begins with art_ was submitted as a video and as an
\* article: the second key was not found
C24_Witness ==
    \E a, b \in Made :
       /\ a.kind = "video" /\ b.kind = "article"
       /\ a.literal = b.literal
       /\ SubSeq(a.id, 1, 4) = SubSeq(b.id, 1, 4)
       /\ ~calc.made[2].found

\* a video and the voice-over of the same video
C24_WitnessSameVideo ==
    \E a, b \in Made :
       /\ a.kind = "video" /\ b.kind = "vo"
       /\ a.literal = b.literal /\ a.id[1] = "v"
       /\ ~calc.made[2].found

-----------------------------------------------------------------------------
\* the positions of a task at an adapter call: metadata, download, article
\* extraction, translation, speech synthesis, vot-cli, subtitles
AtAdapter ==
    {"info", "get", "extract", "translate", "tts", "vot", "subs", "subtrans",
     "subtts"}

\* no adapter was called twice in the run (os.Remove is called once per path)
NoCallRepeated(t) ==
    \A i, j \in 1..Len(t) : (i < j /\ t[i] = t[j]) => t[i] = "os.Remove"

-----------------------------------------------------------------------------
ErrSkip == LateError("Get")

\* Get has returned ErrSkip to task p, and p takes its next step
SkipReturned(p) ==
    /\ pc[p] = "get" /\ call.pc = "returned" /\ call.ret = ErrSkip
    /\ pc'[p] # pc[p]

(* C26: when Downloader.Get returns ErrSkip, the task does not end as a      *)
(* failure: the operator is told of a result of its own, not of a failed     *)
(* download, and no Entry is saved.                                          *)
C26_SkipIsNoContent ==
    [][\A p \in Procs : SkipReturned(p) =>
          /\ outcome'[p] # "failure"
          /\ handled'.reply # DownloadError(ErrSkip)
          /\ entries' = entries /\ everSaved' = everSaved
      ]_vars

\* the command exited with success and left no file: the task has ended as a
\* failure, its status message reads "Error: failed to download: skip"
C26_Witness ==
    \E p \in Procs :
       /\ pc[p] = "done" /\ outcome[p] = "failure"
       /\ handled.reply = <<"Error: ", "failed to download: ", "skip">>
       /\ chat[p].original = "present"
       /\ \A e \in everSaved : e.by # p

\* what holds of C26: ErrSkip ends the task as every error of Get does, and
\* no Entry is saved
C26_SkipIsFailure ==
    [][\A p \in Procs : SkipReturned(p) =>
          /\ pc'[p] = "done" /\ outcome'[p] = "failure"
          /\ handled'.reply = DownloadError(ErrSkip)
          /\ entries' = entries /\ everSaved' = everSaved
          /\ processed' = processed
      ]_vars

-----------------------------------------------------------------------------
\* Downloader.Get has returned to task p
GetReturned(p) == pc[p] = "get" /\ call.pc = "returned"

(* C27: when the command of Downloader.Get exits with success, Get returns   *)
(* the path <destination>/<fname>.mp3, with a nil error if that file is      *)
(* there after the command and with ErrSkip ("skip") if it is not; a nil     *)
(* error never comes with a path to a file that is not there; a command      *)
(* that fails returns the empty path; and a run that ended with success or   *)
(* with ErrSkip is never followed by a second run.                           *)
C27_GetResult ==
    \A p \in Procs : GetReturned(p) =>
       LET n == Len(call.attempts)
           path == <<"yt/">> \o makeFileName(<<res[p]>>) \o <<".mp3">>
       IN  /\ n \in {1, 2}
           /\ call.ret = call.attempts[n].err
           /\ call.ret = OK => (call.file = path /\ call.file \in files)
           /\ call.ret = <<"skip">> => (call.file = path /\ call.file \notin files)
           /\ call.ret \notin {OK, <<"skip">>} => call.file = NoFile
           /\ \A i \in 1..(n - 1) : call.attempts[i].err \notin {OK, <<"skip">>}

\* with a cookies file configured, the first run of the command left no file:
\* Get has returned the path and ErrSkip after that one run
C27_Witness ==
    \E p \in Procs :
       /\ GetReturned(p) /\ call.cookiesFile
       /\ Len(call.attempts) = 1 /\ call.attempts[1].cookies
       /\ call.ret = <<"skip">>
       /\ call.file = GetPath(p) /\ call.file \notin files

\* the run without cookies succeeded: the path and nil, the file is there
C27_WitnessRetry ==
    \E p \in Procs :
       /\ GetReturned(p) /\ Len(call.attempts) = 2
       /\ call.ret = OK /\ call.file \in files

-----------------------------------------------------------------------------
\* IsCookieError has returned for the text s
Answered(s) == calc.pc = "returned" /\ calc.in = s

(* C28: IsCookieError(s) is true exactly when s holds one of the five       *)
(* markers as a substring, letter case included; it is false for the empty  *)
(* string, for "network timeout", for the fragment "cookie", and for a      *)
(* marker written in another case or with a character changed.              *)
C28_IsCookieErrorExact ==
    /\ calc.pc = "returned" => (calc.out <=> calc.in \in Framed(HoldingCores))
    /\ Answered(<<>>) => ~calc.out
    /\ Answered(<<"network timeout">>) => ~calc.out
    /\ Answered(<<"cookie">>) => ~calc.out
    /\ Answered(<<"ERROR: ", "cookies are no longer valid">>) => calc.out
    /\ Answered(<<"cookies have expired", " or been revoked">>) => calc.out
    /\ Answered(<<"ERROR: ", "Please sign in", " to access this video">>) => calc.out
    /\ Answered(<<"Sign in to confirm you", "r age">>) => calc.out
    /\ Answered(<<"Sign in to confirm you", "'re not a bot">>) => calc.out
    /\ Answered(<<"ERROR: ", "please sign in">>) => ~calc.out

\* a marker inside a longer word, lying across two pieces, was found
C28_Witness ==
    /\ Answered(<<"x", "cookies are no longer vali", "d", "'re not a bot">>)
    /\ calc.out

\* the marker in capitals, between other text, was not found
C28_WitnessCase ==
    /\ Answered(<<"ERROR: ", "SIGN IN TO CONFIRM YOUR AGE", " or been revoked">>)
    /\ ~calc.out

-----------------------------------------------------------------------------
\* tag a is tag b, or b continued after a '-'
Heads(a, b) ==
    \/ a = b
    \/ /\ Len(a) < Len(b)
       /\ b[Len(a) + 1] = "-"
       /\ \A k \in 1..Len(a) : a[k] = b[k]

\* the language tag matches the target: equal, or one is the other continued
\* after a '-'
TagMatches(lang, target) == Heads(target, lang) \/ Heads(lang, target)

\* FindDubbedTrack has returned
Found == calc.pc = "found"

(* C29: FindDubbedTrack returns a track exactly when the list holds one      *)
(* whose language equals the target or matches it as a prefix in either      *)
(* direction at a '-' (target ru matches ru-RU, target ru-RU matches ru; ru  *)
(* does not match rum, ru-RU does not match ru-UA); the track returned is    *)
(* the first matching one of the list; for an empty list and for a list      *)
(* without a match it returns nil.                                           *)
C29_FindDubbedTrackFirstMatch ==
    Found =>
       LET tracks == calc.tracks
           hit == {i \in 1..Len(tracks) : TagMatches(tracks[i].Language, calc.TargetLang)}
       IN  /\ (calc.out # NoTrack) <=> (hit # {})
           /\ hit # {} =>
                 \E i \in hit : /\ calc.out = tracks[i]
                                /\ \A j \in 1..(i - 1) : j \notin hit
           /\ tracks = <<>> => calc.out = NoTrack
           /\ (calc.TargetLang = Ru /\ tracks = <<AudioTrack(1, RuRU)>>)
                 => calc.out = AudioTrack(1, RuRU)
           /\ (calc.TargetLang = RuRU /\ tracks = <<AudioTrack(1, Ru)>>)
                 => calc.out = AudioTrack(1, Ru)
           /\ (calc.TargetLang = Ru /\ tracks = <<AudioTrack(1, Rum)>>)
                 => calc.out = NoTrack
           /\ (calc.TargetLang = RuRU /\ tracks = <<AudioTrack(1, RuUA)>>)
                 => calc.out = NoTrack

\* target ru-RU, the list is rum, ru, ru-RU: the second track is returned,
\* not the exact match after it
C29_Witness ==
    /\ Found /\ calc.TargetLang = RuRU
    /\ calc.tracks = <<AudioTrack(1, Rum), AudioTrack(2, Ru), AudioTrack(3, RuRU)>>
    /\ calc.out = AudioTrack(2, Ru)

\* target ru, the list holds rum and en only: nil
C29_WitnessNone ==
    /\ Found /\ calc.TargetLang = Ru
    /\ calc.tracks = <<AudioTrack(1, Rum), AudioTrack(2, En)>>
    /\ calc.out = NoTrack

-----------------------------------------------------------------------------
\* strings.Join(ss, sep)
RECURSIVE StringsJoin(_, _)
StringsJoin(ss, sep) ==
    IF ss = <<>> THEN <<>>
    ELSE IF Len(ss) = 1 THEN ss[1]
    ELSE ss[1] \o sep \o StringsJoin(Tail(ss), sep)

NotEmpty(s) == s # <<>>

\* the sequences of ss, one after the other
RECURSIVE Flatten(_)
Flatten(ss) == IF ss = <<>> THEN <<>> ELSE Head(ss) \o Flatten(Tail(ss))

\* the paragraphs of all chunks, in the order of the chunks
ParagraphsOf(chunks) ==
    Flatten([k \in 1..Len(chunks) |-> StringsSplit(chunks[k], ParagraphSep)])

\* the text of Translate was longer than the cap and has been split
LongSplit == calc.pc = "chunks" /\ Len(calc.text) > maxChunkSize

(* C30: a text longer than the cap is split at paragraph boundaries only,    *)
(* every chunk has at most the cap's size, and the chunks joined in order    *)
(* with the paragraph separator are the text: no paragraph and no separator  *)
(* is lost, doubled or moved.                                                *)
C30_SplitUnderCapRoundTrip ==
    LongSplit =>
       /\ \A k \in 1..Len(calc.out) : Len(calc.out[k]) <= maxChunkSize
       /\ StringsJoin(calc.out, ParagraphSep) = calc.text
       /\ ParagraphsOf(calc.out) = StringsSplit(calc.text, ParagraphSep)

(* What holds of the split: a text within the cap is one chunk; of a longer  *)
(* text no chunk is empty, the non-empty paragraphs of the chunks are those  *)
(* of the text in their order, a chunk above the cap is one paragraph of the *)
(* text, and when no paragraph is empty or above the cap, every chunk is     *)
(* within the cap and the chunks joined with the separator are the text.     *)
C30_SplitKeepsParagraphs ==
    calc.pc = "chunks" =>
       LET paragraphs == StringsSplit(calc.text, ParagraphSep)
           chunks == calc.out
       IN  /\ Len(calc.text) <= maxChunkSize => chunks = <<calc.text>>
           /\ Len(calc.text) > maxChunkSize =>
                 /\ \A k \in 1..Len(chunks) : chunks[k] # <<>>
                 /\ SelectSeq(ParagraphsOf(chunks), NotEmpty)
                       = SelectSeq(paragraphs, NotEmpty)
                 /\ \A k \in 1..Len(chunks) :
                       Len(chunks[k]) > maxChunkSize => chunks[k] \in Range(paragraphs)
                 /\ (\A i \in 1..Len(paragraphs) :
                        paragraphs[i] # <<>> /\ Len(paragraphs[i]) <= maxChunkSize)
                       => /\ \A k \in 1..Len(chunks) : Len(chunks[k]) <= maxChunkSize
                          /\ StringsJoin(chunks, ParagraphSep) = calc.text
                          /\ ParagraphsOf(chunks) = paragraphs

\* a paragraph longer than the cap, after a short one: it is a chunk of its
\* own, above the cap
C30_Witness ==
    /\ LongSplit
    /\ Len(calc.out) = 2
    /\ Len(calc.out[1]) = 1
    /\ Len(calc.out[2]) > maxChunkSize
    /\ StringsJoin(calc.out, ParagraphSep) = calc.text

\* the text begins with the separator: the one chunk is within the cap, and
\* it is the text without the separator
C30_WitnessEmptyParagraph ==
    /\ LongSplit
    /\ SubSeq(calc.text, 1, 2) = ParagraphSep
    /\ Len(calc.out) = 1
    /\ Len(calc.out[1]) <= maxChunkSize
    /\ calc.text = ParagraphSep \o calc.out[1]

\* two paragraphs that do not fit one chunk: two chunks within the cap, and
\* joined they are the text
C30_WitnessFits ==
    /\ LongSplit
    /\ Len(calc.out) = 2
    /\ \A k \in 1..2 : Len(calc.out[k]) <= maxChunkSize
    /\ StringsJoin(calc.out, ParagraphSep) = calc.text

-----------------------------------------------------------------------------
\* no pipeline is in flight and no /del is under way
Quiescent == Active = {} /\ del.pc = "idle"

\* the entries of the store whose file is not on disk
Orphans == {e \in entries : e.File \notin files}

(* C31: with no store or file-system call failing, no quiescent state has a  *)
(* live Entry whose file is not on disk, whatever the interleaving of the    *)
(* pipelines (two submissions of one resource share their file path), of     *)
(* /del and of the evictions.                                                *)
C31_LiveEntryHasFile == (Quiescent /\ faults = 0) => Orphans = {}

\* two submissions of one video passed CheckProcessed together; the Entry of
\* the first was deleted by /del, file first, and the Save of the second then
\* created an Entry on the path of the deleted file: at rest, with no call
\* failed, the feed lists an Entry without a file
C31_Witness ==
    /\ Quiescent /\ faults = 0 /\ del.n = 1
    /\ \E p, q \in Procs :
          /\ p # q /\ SameResource(p, q) /\ kind[p] = "video"
          /\ outcome[p] = "success" /\ outcome[q] = "success"
          /\ \E e \in Orphans : e.by = q /\ e \notin removed
          /\ \E e \in removed : e.by = p
          /\ \A e \in everSaved : e.by \in Procs => e.Published >= FirstNow

-----------------------------------------------------------------------------
\* task p creates an Entry in the step
CreatesEntry(p) == pc[p] = "save" /\ \E e \in entries' \ entries : e.by = p

\* a /del command has completed that removed an Entry of the resource of
\* task p, created by a task accepted after p (tasks are accepted in the
\* order of their numbers): p was accepted before the delete
DeletedSinceAccepted(p) ==
    /\ del.pc = "idle"
    /\ \E r \in removed : r.by \in Procs /\ p < r.by /\ r.VideoID = KeyOf(p)

(* C32: a manual delete is final for the submissions accepted before it:     *)
(* once /del has removed the Entry of a resource and completed, a pipeline   *)
(* for that resource that was accepted before the delete does not create the *)
(* Entry again.                                                              *)
C32_DeleteIsFinal ==
    [][\A p \in Procs : ~(CreatesEntry(p) /\ DeletedSinceAccepted(p))]_vars

\* two tasks for one video; the Entry of the second was removed by a /del
\* that has completed, and the first, accepted before it, has saved since:
\* the feed holds an Entry of the deleted video again
C32_Witness ==
    /\ del.pc = "idle" /\ del.n > 0 /\ faults = 0
    /\ \E p, q \in Procs, e \in entries, r \in removed :
          /\ p < q /\ e.by = p /\ r.by = q
          /\ e.VideoID = r.VideoID /\ r \notin entries

-----------------------------------------------------------------------------
\* the Entry task p created is in the store and its file is on disk
OwnEntryLive(p) == \E e \in entries : e.by = p /\ e.File \in files

(* C33: a pipeline that reports success for an Entry it created, no other    *)
(* task having deleted or evicted it in between, leaves that Entry in the    *)
(* store and its file on disk, whatever Published the metadata gave it: the  *)
(* pipeline's own eviction does not remove the Entry it has just saved.      *)
C33_OwnEntrySurvives ==
    [][\A p \in Procs : Ends(p, "success") => OwnEntryLive(p)']_vars

\* the feed was full and the video's upload date is older than every Entry of
\* it: the one task that ran has reported success, its Entry was evicted by
\* its own RemoveOld and the file it downloaded was deleted
C33_Witness ==
    \E p \in Procs :
       /\ outcome[p] = "success" /\ kind[p] = "video"
       /\ \A q \in Procs \ {p} : pc[q] = "idle"
       /\ del.n = 0 /\ faults = 0
       /\ \E e \in everSaved \ entries :
             /\ e.by = p /\ e.Published = PastDate /\ e.File \notin files
       /\ KeyOf(p) \in processed
       /\ Cardinality(entries) = MaxItems

-----------------------------------------------------------------------------
\* the entries RemoveOld has evicted: saved once, not in the store, and not
\* removed by /del
Evicted == everSaved \ (entries \cup removed)

\* the Entry of key k was evicted, and the marker of k is set
EvictedMarked(k) ==
    /\ k \in processed
    /\ \E e \in Evicted : e.VideoID = k
    /\ ~StoreHas(entries, k)

(* C34: eviction resets no marker: RemoveOld leaves the markers as they are, *)
(* and a submission of a resource whose Entry was evicted, its marker still  *)
(* set, ends at the Dedup-Check as already present, having made no call of   *)
(* the Acquiring step and without creating the Entry again; /del picks its   *)
(* Entry among the live ones, so it cannot target the evicted one.           *)
C34_EvictedStaysDeduplicated ==
    [][/\ \A p \in Procs :
             /\ Leaves(p, "evict") => processed' = processed
             /\ (Leaves(p, "check") /\ EvictedMarked(KeyOf(p))) =>
                   /\ outcome'[p] = "already_in_feed"
                   /\ Called(p) \cap AcquiringCalls = {}
                   /\ entries' = entries /\ files' = files
                   /\ processed' = processed
       /\ (del.pc = "idle" /\ del'.pc = "file") => del'.entry \in entries
      ]_vars

(* What holds of it: RemoveOld leaves the markers; when the Dedup-Check does *)
(* not fail, such a submission ends there as already present, store, markers *)
(* and files unchanged, a video or a voice-over without any call of the      *)
(* Acquiring step, an article after its extraction and translation only;     *)
(* and /del picks a live Entry.                                              *)
C34_MarkerSurvivesEviction ==
    [][/\ \A p \in Procs :
             /\ Leaves(p, "evict") => processed' = processed
             /\ (Leaves(p, "check") /\ EvictedMarked(KeyOf(p)) /\ Sound) =>
                   /\ outcome'[p] = "already_in_feed"
                   /\ Called(p) \cap AcquiringCalls
                         \subseteq (IF kind[p] = "article"
                                    THEN {"Extract", "Translate"} ELSE {})
                   /\ entries' = entries /\ files' = files
                   /\ processed' = processed
       /\ (del.pc = "idle" /\ del'.pc = "file") => del'.entry \in entries
      ]_vars

\* an article whose Entry was evicted is submitted again: the task stands at
\* its Dedup-Check, the marker is set, and the page was fetched and translated
C34_Witness ==
    \E p \in Procs :
       /\ pc[p] = "check" /\ kind[p] = "article"
       /\ EvictedMarked(KeyOf(p))
       /\ {"Extract", "Translate"} \subseteq Called(p)

\* a video evicted by the RemoveOld of its own task (an old upload date) is
\* submitted again: the second task has ended at the Dedup-Check
C34_WitnessVideo ==
    \E p, q \in Procs :
       /\ p # q /\ SameResource(p, q) /\ kind[p] = "video"
       /\ outcome[p] = "success" /\ outcome[q] = "already_in_feed"
       /\ EvictedMarked(KeyOf(q))
       /\ \E e \in Evicted : e.by = p

-----------------------------------------------------------------------------
\* the tasks that have saved their Entry and not yet called RemoveOld
SavedNotEvicted == {p \in Procs : pc[p] \in {"mark", "evict"}}

\* the feed holds at most MaxItems entries, and one more for each such task
WithinBound == Cardinality(entries) <= MaxItems + Cardinality(SavedNotEvicted)

\* a RemoveOld call fails in the step
RemoveOldFails == \E p \in Procs : Leaves(p, "evict") /\ ~Sound

(* C35: with MaxItems = N > 0, as long as no RemoveOld call fails, the feed  *)
(* holds at most N entries and one more for each pipeline that has saved and *)
(* not yet evicted, so that it holds at most N whenever no pipeline is in    *)
(* flight, for any interleaving of the pipelines and of /del: the bound      *)
(* holds at start-up and every step but a failing RemoveOld keeps it.        *)
C35_BoundAtQuiescence ==
    /\ MaxItems > 0
    /\ WithinBound
    /\ (Active = {} => Cardinality(entries) <= MaxItems)
    /\ [][(~RemoveOldFails /\ WithinBound) =>
             /\ WithinBound'
             /\ (Active' = {} => Cardinality(entries') <= MaxItems)]_vars

\* two pipelines have saved before either evicts: the full feed holds two
\* entries more than MaxItems
C35_Witness ==
    /\ Cardinality(SavedNotEvicted) = 2
    /\ Cardinality(entries) = MaxItems + 2
    /\ faults = 0

\* both have evicted and ended: the feed is back at MaxItems
C35_WitnessAtRest ==
    /\ Active = {} /\ faults = 0 /\ del.n = 0
    /\ \A p \in Procs : outcome[p] = "success"
    /\ Cardinality(everSaved) = MaxItems + 2
    /\ Cardinality(entries) = MaxItems

-----------------------------------------------------------------------------
\* task p created an Entry of its key (its Save returned created=true)
CreatedOwn(p) == \E e \in everSaved : e.by = p /\ e.VideoID = KeyOf(p)

(* C36: a marker is set only for a key whose Entry the same run created:     *)
(* every marker present belongs to a key some Save created an Entry for, a   *)
(* marker appears only in the SetProcessed step of a task whose own Save     *)
(* created the Entry of that key, and a task that ends at the Dedup-Check,   *)
(* fails, or is told "Already exists" has not called SetProcessed and sets   *)
(* no marker.                                                                *)
C36_MarkerOnlyAfterOwnSave ==
    /\ \A k \in processed : \E e \in everSaved : e.VideoID = k
    /\ [][/\ \A k \in processed' \ processed :
                \E p \in Procs :
                   /\ Leaves(p, "mark") /\ KeyOf(p) = k /\ CreatedOwn(p)
                   /\ processed' = processed \cup {k}
          /\ \A p \in Procs :
                \A s \in {"already_in_feed", "failure", "already_exists"} :
                   Ends(p, s) =>
                      /\ processed' = processed
                      /\ "SetProcessed" \notin Called(p)
                      /\ s # "failure" => ~CreatedOwn(p)
         ]_vars

\* two tasks for one resource: the Save of the second found the Entry and the
\* task ended with "Already exists" while the first, which created the Entry,
\* has not yet set the marker: no marker of the key is set
C36_Witness ==
    \E p, q \in Procs :
       /\ p # q /\ SameResource(p, q)
       /\ pc[p] = "mark" /\ CreatedOwn(p)
       /\ outcome[q] = "already_exists"
       /\ KeyOf(p) \notin processed

\* the first has set it since
C36_WitnessSet ==
    \E p, q \in Procs :
       /\ p # q /\ SameResource(p, q)
       /\ pc[p] = "evict" /\ CreatedOwn(p)
       /\ outcome[q] = "already_exists"
       /\ KeyOf(p) \in processed

-----------------------------------------------------------------------------
\* the store holds an Entry of key k, and the marker of k is not set
Unmarked(k) == StoreHas(entries, k) /\ k \notin processed

(* C37, as it holds: while an Entry of key k is in the store without its     *)
(* marker, every submission of that resource passes the Dedup-Check and      *)
(* acquires again, its Save returns created=false, and the run ends with     *)
(* "Already exists" leaving store and markers as they were: the marker is    *)
(* still absent, and the next submission does the same.                      *)
C37_UnmarkedStaysUnmarked ==
    [][\A p \in Procs :
          /\ (Leaves(p, "check") /\ Unmarked(KeyOf(p))) => pc'[p] # "done"
          /\ (Leaves(p, "save") /\ Unmarked(KeyOf(p)) /\ Sound) =>
                /\ Ends(p, "already_exists")
                /\ trace[p][Len(trace[p])] \in ProducingCalls
                /\ entries' = entries /\ processed' = processed
                /\ Unmarked(KeyOf(p))'
      ]_vars

\* two submissions of the resource, one after the other, have both acquired
\* and ended with "Already exists": the marker is absent as before
C37_Witness ==
    \E p, q \in Procs :
       /\ p < q /\ SameResource(p, q)
       /\ outcome[p] = "already_exists" /\ outcome[q] = "already_exists"
       /\ Unmarked(KeyOf(q))
       /\ faults = 0 /\ del.n = 0

\* C37 as stated: the submission that finds the Entry without its marker, and
\* is told created=false, leaves the marker set
C37_NextSubmissionMarks ==
    [][\A p \in Procs :
          (Ends(p, "already_exists") /\ Unmarked(KeyOf(p))) =>
             KeyOf(p) \in processed'
      ]_vars

-----------------------------------------------------------------------------
\* the strategy a position of the cascade belongs to
StrategyAt(at) ==
    CASE at = "dub" -> "youtube-dubbed"
      [] at = "vot" -> "vot-cli"
      [] at \in {"subs", "subtrans", "subtts"} -> "subtitles-tts"
      [] OTHER -> "none"

\* the strategy whose call put the audio file of the run on disk
ProducedBy(p) ==
    LET made == {i \in 1..Len(trace[p]) : trace[p][i] \in ProducingCalls}
        last == CHOOSE i \in made : \A j \in made : j <= i
    IN  CASE trace[p][last] = "DownloadDubbedTrack" -> "youtube-dubbed"
          [] trace[p][last] = "TranslateVideo" -> "vot-cli"
          [] trace[p][last] = "WriteFile" -> "subtitles-tts"
          [] OTHER -> "none"

\* the probe of the step gave no track to download: an error, or no track of
\* the target language
NoDubbedTrack == calc'.trackErr \/ calc'.out = NoTrack

(* C38: the voice-over cascade is first-success-wins.  A probe of the dubbed *)
(* tracks that returns an error or finds no matching track, and a failed    *)
(* download of a track that was found, do not fail the pipeline: it goes on *)
(* to the strategy the duration selects, subtitles-tts above 4 hours and    *)
(* vot-cli otherwise.  A failure of that second strategy ends the pipeline  *)
(* in failure and no other strategy is tried.  The Entry saved is tagged    *)
(* with the strategy whose call produced the file.                          *)
C38_FirstSuccessWins ==
    [][\A p \in Procs : kind[p] = "vo" =>
          /\ Leaves(p, "probe") =>
                /\ pc'[p] # "done"
                /\ IF NoDubbedTrack
                   THEN /\ pc'[p] \in {"vot", "subs"}
                        /\ StrategyAt(pc'[p]) = ByDuration(info[p].Duration)
                   ELSE pc'[p] = "dub"
          /\ Leaves(p, "dub") =>
                /\ pc'[p] # "done"
                /\ \/ pc'[p] = "save" /\ info'[p].Method = "youtube-dubbed"
                   \/ /\ pc'[p] \in {"vot", "subs"}
                      /\ StrategyAt(pc'[p]) = ByDuration(info[p].Duration)
                      /\ files' = files
          /\ \A at \in {"vot", "subs", "subtrans", "subtts"} : Leaves(p, at) =>
                \/ Ends(p, "failure") /\ pc'[p] = "done" /\ entries' = entries
                \/ pc'[p] = "save" /\ info'[p].Method = StrategyAt(at)
                \/ /\ StrategyAt(pc'[p]) = StrategyAt(at)
                   /\ files' = files
          /\ (pc[p] = "save" /\ pc'[p] = "mark") =>
                \E e \in entries' \ entries :
                   e.by = p /\ e.Method = ProducedBy(p)]_vars

\* a track of the target language was found and its download failed; the
\* video is longer than 4 hours, and its Entry is saved as subtitles-tts
C38_Witness ==
    \E p \in Procs :
       /\ kind[p] = "vo" /\ pc[p] = "mark"
       /\ calc.pc = "probed" /\ calc.by = p
       /\ ~calc.trackErr /\ calc.out # NoTrack
       /\ "DownloadDubbedTrack" \in Called(p)
       /\ info[p].Duration > 4 * 60 * 60
       /\ \E e \in entries : e.by = p /\ e.Method = "subtitles-tts"

\* the probe returned an error, and the Entry is saved as vot-cli
C38_WitnessProbeError ==
    \E p \in Procs :
       /\ kind[p] = "vo" /\ pc[p] = "mark"
       /\ calc.pc = "probed" /\ calc.by = p /\ calc.trackErr
       /\ \E e \in entries : e.by = p /\ e.Method = "vot-cli"

\* the probe found tracks, none of the target language, and the second
\* strategy failed: the pipeline ended in failure, nothing was saved
C38_WitnessSecondFails ==
    \E p \in Procs :
       /\ kind[p] = "vo" /\ outcome[p] = "failure"
       /\ calc.pc = "probed" /\ calc.by = p
       /\ ~calc.trackErr /\ calc.tracks # <<>> /\ calc.out = NoTrack
       /\ \A e \in entries : e.by # p

-----------------------------------------------------------------------------
\* the step is handleDelete answering a command, or choosing its entry
DelCommand == handled'.cmd = "/del" /\ handled' # handled

\* the argument of a /del command, <<>> when it has none
DelArg(text) ==
    LET args == SplitSpaces(text) IN IF Len(args) > 1 THEN args[2] ELSE <<>>

\* the field is a decimal number: an optional sign, digits, and nothing else
Numeric(f) == ~Sscanf(f).err /\ Sscanf(f).read = Len(f)

\* the field begins with a decimal number
LeadingNumber(f) == ~Sscanf(f).err

\* the entries /del lists
Listed == Min(Cardinality(entries), MaxItems)

\* e is the n-th newest entry of the feed
NthNewest(e, n) ==
    /\ e \in entries
    /\ Cardinality({x \in entries : x.Published > e.Published}) < n
    /\ n <= Cardinality({x \in entries : x.Published >= e.Published})

\* handleDelete up to the choice of the entry, for a reading IsNumber of
\* "N is a number"
DelChoice(IsNumber(_)) ==
    DelCommand =>
       LET f == DelArg(handled'.text)
           N == IF f = <<>> THEN 1 ELSE Sscanf(f).val
           badArg == f # <<>> /\ (~IsNumber(f) \/ N < 1)
           refused == badArg \/ entries = {} \/ N > Listed
       IN  /\ UNCHANGED <<entries, processed, files>>
           /\ refused =>
                 /\ del' = del
                 /\ handled'.reply \in
                       {DelUsage, FeedEmpty, OnlyEntries(Listed), DelLoadError}
                 /\ handled'.reply = DelUsage <=> badArg
                 /\ handled'.reply = FeedEmpty => entries = {}
           /\ ~refused =>
                 \/ handled'.reply = DelLoadError /\ del' = del
                 \/ /\ handled'.reply = Silent
                    /\ del'.pc = "file" /\ NthNewest(del'.entry, N)

\* the deletion of the chosen entry: its file, the entry, its marker, and
\* nothing else
DelEffect ==
    /\ (del.pc = "file" /\ del'.pc = "remove") =>
          /\ files \ files' \subseteq {del.entry.File} /\ files' \subseteq files
          /\ Sound => del.entry.File \notin files'
          /\ UNCHANGED <<entries, processed>>
    /\ (del.pc = "remove" /\ del'.pc = "reset") =>
          /\ del.entry \in entries /\ entries' = entries \ {del.entry}
          /\ UNCHANGED <<files, processed>>
    /\ (del.pc = "reset" /\ del'.pc = "idle") =>
          /\ processed \ processed' \subseteq {del.entry.VideoID}
          /\ processed' \subseteq processed
          /\ Sound => del.entry.VideoID \notin processed'
          /\ UNCHANGED <<entries, files>>

(* C39, as stated: /del N, N defaulting to 1, deletes exactly the N-th      *)
(* newest Entry of the feed as listed newest-first (its file, the Entry and *)
(* its marker) and nothing else; for an N that is not a number, N < 1, an   *)
(* empty feed or N above the number of listed entries the command replies   *)
(* with the usage or the limit message and changes neither the store, the   *)
(* markers nor any file.                                                    *)
C39_DeleteNth == [][DelChoice(Numeric) /\ DelEffect]_vars

(* C39, as the code has it: the same, where N is the decimal number the     *)
(* argument begins with; an argument with anything after that number is     *)
(* taken as the number.                                                     *)
C39_DeleteLeadingNumber == [][DelChoice(LeadingNumber) /\ DelEffect]_vars

\* "/del 1x" and the like: the argument is no number, and the command has
\* removed an Entry of the feed
C39_Witness ==
    /\ del.pc = "reset" /\ handled.cmd = "/del"
    /\ DelArg(handled.text) # <<>> /\ ~Numeric(DelArg(handled.text))
    /\ del.entry \in removed /\ del.entry \notin entries
    /\ del.entry.File \notin files

\* /del 2 has chosen the second newest of two entries
C39_WitnessSecond ==
    /\ del.pc = "file" /\ handled.cmd = "/del"
    /\ Numeric(DelArg(handled.text)) /\ Sscanf(DelArg(handled.text)).val = 2
    /\ \E e \in entries : e # del.entry /\ e.Published > del.entry.Published

\* /del N with N above the number of entries of a feed that is not empty
C39_WitnessBeyond ==
    /\ handled.cmd = "/del" /\ handled.reply = OnlyEntries(Listed)
    /\ entries # {} /\ del.pc = "idle" /\ del.n = 0
    /\ Sscanf(DelArg(handled.text)).val > Listed

\* /del with no argument on an empty feed
C39_WitnessEmpty ==
    /\ handled.cmd = "/del" /\ handled.reply = FeedEmpty
    /\ DelArg(handled.text) = <<>> /\ entries = {}

-----------------------------------------------------------------------------
\* a call over chunks is running or has returned
Chunked == calc.pc \in {"loop", "returned"}

\* the results of the first n chunks of the call, concatenated in their order
RECURSIVE ResultsUpTo(_)
ResultsUpTo(n) ==
    IF n = 0 THEN <<>>
    ELSE ResultsUpTo(n - 1) \o WorkerResult(calc.fn, calc.chunks[n])

\* the chunks whose worker call succeeded
Succeeded == {k \in 1..Len(calc.answers) : calc.answers[k] = "ok"}

\* the state of a call over chunks
ChunkedState ==
    Chunked =>
       LET n == Len(calc.chunks)
           sent == Len(calc.submitted)
       IN  /\ sent <= n
           /\ \A k \in 1..sent : calc.submitted[k] = k
           /\ Len(calc.answers) = sent - (IF calc.inflight THEN 1 ELSE 0)
           /\ \A k \in 1..sent : k > 1 => (k - 1) \in Succeeded
           /\ calc.result = ResultsUpTo(Cardinality(Succeeded))
           /\ (calc.pc = "returned" /\ calc.err = OK) =>
                 /\ sent = n /\ Succeeded = 1..n
                 /\ calc.ret = ResultsUpTo(n)
           /\ (calc.pc = "returned" /\ calc.err # OK) => calc.ret = <<>>
           /\ (\E k \in 1..Len(calc.answers) : calc.answers[k] = "error") =>
                 /\ calc.pc = "returned" /\ calc.err # OK
                 /\ calc.answers[sent] = "error"

\* the steps of a call over chunks
ChunkedStep ==
    /\ (calc.pc = "loop" /\ ~calc.inflight /\ calc.ctx = "done"
           /\ calc.i <= Len(calc.chunks) /\ calc' # calc) =>
          /\ calc'.pc = "returned" /\ calc'.err = CtxErr /\ calc'.ret = <<>>
          /\ calc'.submitted = calc.submitted
    /\ (calc.pc = "loop" /\ calc.inflight /\ calc'.answers # calc.answers
           /\ calc'.result = calc.result) =>
          /\ calc'.pc = "returned" /\ calc'.err # OK /\ calc'.ret = <<>>
          /\ calc'.submitted = calc.submitted
    /\ calc.pc = "returned" => calc' = calc

C40_WitnessFailure ==
    /\ calc.pc = "returned" /\ calc.err # OK /\ calc.ret = <<>>
    /\ calc.answers = <<"ok", "error">> /\ calc.result # <<>>
    /\ Len(calc.chunks) > Len(calc.submitted)

\* the context was cancelled after the first chunk succeeded: the call
\* returned its error and no result, the later chunks were not submitted
C40_WitnessCancelled ==
    /\ calc.pc = "returned" /\ calc.err = CtxErr /\ calc.ret = <<>>
    /\ calc.answers = <<"ok">> /\ calc.result # <<>>
    /\ Len(calc.chunks) > Len(calc.submitted)

====
